---- MODULE Spec2Model ----
(***************************************************************************)
(* GT7Communication (gt7communication.py): the receiver thread's run loop, *)
(* the per-tick fold into the open Lap, finish_lap and its callbacks,      *)
(* together with GT7Session (gt7session.py) and Lap (gt7lap.py).           *)
(*                                                                         *)
(* Two threads are modelled: "rx", the GT7Communication thread, and "ui",  *)
(* a caller thread (button handlers of tabs/race_tab.py).  A call of       *)
(* finish_lap is a frame on the calling thread's stack; a listener or a    *)
(* callback that calls finish_lap again pushes a frame on the same stack.  *)
(*                                                                         *)
(* Units: times reported by the console are milliseconds.  The fold's      *)
(* tick time lap_ticks*1000/60 ms is not an integer, so                    *)
(* session.special_packet_time and lap.lap_live_time are kept in thirds of *)
(* a millisecond (one tick = 50 thirds).                                   *)
(***************************************************************************)
EXTENDS Integers, Sequences, FiniteSets, TLC

\* ---- bounds of the model ------------------------------------------------
MaxRecv == 2
MaxId == 2
MaxLapIndex == 2
MaxTime == 3
MaxDepth == 2
MaxCallerLaps == 3
MaxRegistrations == 2
MaxBindFailures == 5
MaxSocketErrors == 1
MaxStops == 2
MaxHelperLaps == 3
MaxSamples == 5
MaxSpeed == 3

\* ---- program constants --------------------------------------------------
HeartbeatEvery == 100
ConnectedWindow == 1
MaxCarSpeed == 500
MaxPedal == 100
MaxPosition == 10000
InitialLapTicks == 1
InitialMinBodyHeight == 1000000
YawInterval == 60
TyreOverheat == 100
MaxConsecutiveFailures == 5
BaseRetryDelay == 1
MaxRetryDelay == 30
ConnectionFailureLimit == 5
SocketFailureLimit == 3
GeneralFailureLimit == 5
JoinTimeout == 5
SocketTimeout == 10
TenSeconds == 10000
FuelConsumptionPerLevelChange == 8
PowerPerLevelChange == 4
FirstMixtureSetting == -5
TickTimeMicroseconds == 16668
LastMixtureSetting == 5

Threads == {"rx", "ui"}

VARIABLES
    shall_run,                 \* GT7Communication._shall_run
    shall_restart,             \* GT7Communication._shall_restart
    current_lap,               \* GT7Communication.current_lap
    last_data,                 \* GT7Communication.last_data: <<>> is GT7Data(None)
    last_time_data_received,   \* GT7Communication._last_time_data_received
    was_connected,             \* GT7Communication._was_connected ("unset" before the first check)
    always_record_data,        \* GT7Communication.always_record_data
    lapfinish_callback,        \* TRUE iff _on_lapfinish_callback is set
    lock,                      \* owner of _current_lap_lock, "none" when free
    session,                   \* GT7Communication.session (GT7Session)
    rpc,                       \* position of the receiver thread in run()
    previous_lap,              \* local of _run_communication_loop
    package_id,                \* local of _run_communication_loop
    package_nr,                \* local of _run_communication_loop
    stack,                     \* per thread: the finish_lap calls in progress
    now,                       \* time.time(), whole seconds
    received,                  \* history: datagrams received so far
    rx,                        \* history: what the last receive did
    hi_loop,                   \* history: highest package_id accepted since the loop was entered
    hi_run,                    \* history: highest package_id accepted since the loop was entered or timed out
    prev_index,                \* history: current_lap index of the accepted sample before the last one
    accepted_at,               \* history: clock value when the last sample was accepted, 0 if none
    added,                     \* history: laps finish_lap appended to the session
    cb_calls,                  \* history: laps handed to the lap-finished callback
    connection_attempts,       \* local of run()
    retry_delay,               \* local of run(): the delay being slept, 0 when not sleeping
    streak,                    \* history: failed _create_socket calls since the last one that succeeded
    bind_failures,             \* history: failed _create_socket calls so far
    socket_errors,             \* history: socket errors raised out of the loop so far
    stop_pc,                   \* position of the caller thread in stop(), "idle" outside it
    stops,                     \* history: calls of stop() that have returned
    on_add_lap_callbacks,      \* GT7Session._on_add_lap_callbacks
    on_load_laps_callbacks,    \* GT7Session._on_load_laps_callbacks
    registrations,             \* history: per listener, the set_on_load_laps_callback calls since it was last removed
    last_call,                 \* history: the last call a caller thread made on the session
    input,                     \* the arguments of a call of a helper function
    output,                    \* what that call gave: its return value, or the exception it raised
    pending,                   \* caller thread inside delete_lap or load_laps: the list it is about to assign
    heartbeat,                 \* history: the receiver's heartbeats since it last bound, received or timed out
    connections                \* history: how often the receiver became connected, and the on_connected calls

vars == <<shall_run, shall_restart, current_lap, last_data, last_time_data_received,
          was_connected, connections, always_record_data, lapfinish_callback, lock, session,
          rpc, previous_lap, package_id, package_nr, stack, now,
          received, rx, hi_loop, hi_run, prev_index, accepted_at, added, cb_calls,
          connection_attempts, retry_delay, streak, bind_failures, socket_errors,
          stop_pc, stops, on_add_lap_callbacks, on_load_laps_callbacks, registrations, last_call,
          input, output, pending, heartbeat>>

rxLocals == <<previous_lap, package_id, package_nr>>
history == <<received, rx, hi_loop, hi_run, prev_index, accepted_at>>
flags == <<shall_run, shall_restart, always_record_data, lapfinish_callback>>
runLocals == <<connection_attempts, retry_delay>>
runHistory == <<streak, bind_failures, socket_errors>>
\* What the steps of the receive loop and of finish_lap leave alone.
stopping == <<stop_pc, stops>>
registry == <<on_add_lap_callbacks, on_load_laps_callbacks, registrations>>
\* The session's listener lists and the record of the callers' calls.
callers == <<registry, last_call>>
\* A call of a helper function.
helperCall == <<input, output>>
beyondLoop == <<runLocals, runHistory, stopping, callers, helperCall, pending>>

\* ---- values -------------------------------------------------------------

\* Lap.__init__: the attributes a fresh Lap has (title and the two timestamps
\* are not modelled).
Lap0 ==
    [ lap_ticks |-> InitialLapTicks,
      lap_finish_time |-> 0,
      lap_live_time |-> 0,
      total_laps |-> 0,
      number |-> 0,
      throttle_and_brake_ticks |-> 0,
      no_throttle_and_no_brake_ticks |-> 0,
      full_brake_ticks |-> 0,
      full_throttle_ticks |-> 0,
      tyres_overheated_ticks |-> 0,
      tyres_spinning_ticks |-> 0,
      data_throttle |-> <<>>,
      data_braking |-> <<>>,
      data_coasting |-> <<>>,
      data_speed |-> <<>>,
      data_time |-> <<>>,
      data_rpm |-> <<>>,
      data_gear |-> <<>>,
      data_tyres |-> <<>>,
      data_position_x |-> <<>>,
      data_position_y |-> <<>>,
      data_position_z |-> <<>>,
      fuel_at_start |-> 0,
      fuel_at_end |-> -1,
      fuel_consumed |-> -1,
      data_boost |-> <<>>,
      data_rotation_yaw |-> <<>>,
      data_absolute_yaw_rate_per_second |-> <<>>,
      car_id |-> 0,
      is_replay |-> FALSE,
      is_manual |-> FALSE ]

\* Python's None.
None == [is_none |-> TRUE]

\* Python's obj.name = v: sets the attribute, creating it when absent.
SetAttr(obj, name, v) ==
    [k \in (DOMAIN obj) \cup {name} |-> IF k = name THEN v ELSE obj[k]]

HasAttr(obj, name) == name \in DOMAIN obj

\* GT7Session.__init__ (the listener lists are modelled by the listener actions).
Session0 ==
    [ special_packet_time |-> 0,
      best_lap |-> -1,
      min_body_height |-> InitialMinBodyHeight,
      max_speed |-> 0,
      laps |-> <<>> ]

\* A decoded datagram: the fields of GT7Data that gt7communication.py reads.
Sample(id, cur, last, paused, speed) ==
    [ package_id |-> id,
      current_lap |-> cur,
      last_lap |-> last,
      best_lap |-> last,
      in_race |-> TRUE,
      is_paused |-> paused,
      car_speed |-> speed,
      throttle |-> 100,
      brake |-> 0,
      ride_height |-> 50,
      tyre_temp_FL |-> 60, tyre_temp_FR |-> 60, tyre_temp_RL |-> 60, tyre_temp_RR |-> 60,
      type_speed_FL |-> speed, type_speed_FR |-> speed,
      type_speed_RL |-> speed, type_speed_RR |-> speed,
      rpm |-> 5000,
      current_gear |-> 3,
      boost |-> 0,
      rotation_yaw |-> 0,
      position_x |-> 10, position_y |-> 0, position_z |-> 20,
      current_fuel |-> 40,
      fuel_capacity |-> 100,
      total_laps |-> 5,
      car_id |-> 7,
      estimated_top_speed |-> 300 ]

\* salsa20_dec returned no bytes: len(ddata) = 0.
EmptyDecode == <<>>

Abs(x) == IF x < 0 THEN -x ELSE x

\* ---- pure parts of the receiver -----------------------------------------

\* Mutant of Accepts: a datagram with the package_id of the last accepted one
\* is accepted again.
Accepts_Duplicates(d, pid) == d # EmptyDecode /\ d.package_id >= pid

\* _run_communication_loop, the test that accepts a datagram:
\* len(ddata) > 0 and its package_id > the loop's package_id.
Accepts(d, pid) == d # EmptyDecode /\ d.package_id > pid

\* Mutant of IsRecording: index 0 takes the recording branch too.
IsRecording_FromZero(d) == d.current_lap >= 0 /\ (d.in_race \/ always_record_data)

\* _run_communication_loop, the test that opens the recording branch:
\* curlap > 0 and (in_race or always_record_data).
IsRecording(d) == d.current_lap > 0 /\ (d.in_race \/ always_record_data)

\* _run_communication_loop, the test for a lap boundary: curlap != previous_lap.
IsNewLap(d, prev) == d.current_lap # prev

\* Mutant of IsConnected: the age of the last packet is not looked at.
IsConnected_NoExpiry == last_time_data_received > 0

\* is_connected(): a packet was accepted and it is at most one second old.
IsConnected ==
    last_time_data_received > 0 /\ (now - last_time_data_received) <= ConnectedWindow

\* _validate_data
ValidateData(d) ==
    /\ ~(d.car_speed < 0 \/ d.car_speed > MaxCarSpeed)
    /\ (0 <= d.throttle /\ d.throttle <= MaxPedal)
    /\ (0 <= d.brake /\ d.brake <= MaxPedal)
    /\ ~(\E pos \in {d.position_x, d.position_y, d.position_z} : Abs(pos) > MaxPosition)

\* _log_data: TRUE iff the sample reaches the fold
\* (not None, data.in_race or always_record_data, not paused, valid).
LogsData(d) ==
    /\ d # None
    /\ (d.in_race \/ always_record_data)
    /\ ~d.is_paused
    /\ ValidateData(d)

\* Mutant of FoldHead: a tick counts as coasting whenever the throttle is 0.
FoldHead_CoastOnLift(lap, sess, d) ==
    LET coast == (d.throttle = 0)
        divisor == IF d.car_speed = 0 THEN 1 ELSE d.car_speed
        spinning == \E w \in {d.type_speed_FL, d.type_speed_FR, d.type_speed_RL} :
                        10 * w > 11 * divisor
        hot == \E temp \in {d.tyre_temp_FL, d.tyre_temp_FR, d.tyre_temp_RL, d.tyre_temp_RR} :
                        temp > TyreOverheat
        l1 == [lap EXCEPT
                 !.full_throttle_ticks = IF d.throttle = MaxPedal THEN @ + 1 ELSE @,
                 !.full_brake_ticks = IF d.brake = MaxPedal THEN @ + 1 ELSE @,
                 !.no_throttle_and_no_brake_ticks = IF coast THEN @ + 1 ELSE @,
                 !.data_coasting = Append(@, IF coast THEN 1 ELSE 0),
                 !.throttle_and_brake_ticks =
                     IF d.brake > 0 /\ d.throttle > 0 THEN @ + 1 ELSE @,
                 !.lap_ticks = @ + 1,
                 !.tyres_overheated_ticks = IF hot THEN @ + 1 ELSE @,
                 !.data_braking = Append(@, d.brake),
                 !.data_throttle = Append(@, d.throttle),
                 !.data_speed = Append(@, d.car_speed),
                 !.tyres_spinning_ticks = IF spinning THEN @ + 1 ELSE @,
                 !.data_tyres = Append(@, << d.type_speed_FL + d.type_speed_FR
                                              + d.type_speed_RL + d.type_speed_FR,
                                            divisor >>)]
    IN  [ lap |-> SetAttr(l1, "in_race", d.in_race),
          session |-> [sess EXCEPT
                 !.min_body_height = IF d.ride_height < @ THEN d.ride_height ELSE @,
                 !.max_speed = IF d.car_speed > @ THEN d.car_speed ELSE @] ]

\* _process_lap_data up to the first use of data_tyres_delta_fl.
\* A slip ratio wheel/divisor is kept as the pair <<wheel, divisor>>; the sum
\* appended to data_tyres as <<sum of the four wheel values used, divisor>>.
FoldHead(lap, sess, d) ==
    LET coast == (d.brake = 0 /\ d.throttle = 0)
        divisor == IF d.car_speed = 0 THEN 1 ELSE d.car_speed
        spinning == \E w \in {d.type_speed_FL, d.type_speed_FR, d.type_speed_RL} :
                        10 * w > 11 * divisor
        hot == \E temp \in {d.tyre_temp_FL, d.tyre_temp_FR, d.tyre_temp_RL, d.tyre_temp_RR} :
                        temp > TyreOverheat
        l1 == [lap EXCEPT
                 !.full_throttle_ticks = IF d.throttle = MaxPedal THEN @ + 1 ELSE @,
                 !.full_brake_ticks = IF d.brake = MaxPedal THEN @ + 1 ELSE @,
                 !.no_throttle_and_no_brake_ticks = IF coast THEN @ + 1 ELSE @,
                 !.data_coasting = Append(@, IF coast THEN 1 ELSE 0),
                 !.throttle_and_brake_ticks =
                     IF d.brake > 0 /\ d.throttle > 0 THEN @ + 1 ELSE @,
                 !.lap_ticks = @ + 1,
                 !.tyres_overheated_ticks = IF hot THEN @ + 1 ELSE @,
                 !.data_braking = Append(@, d.brake),
                 !.data_throttle = Append(@, d.throttle),
                 !.data_speed = Append(@, d.car_speed),
                 !.tyres_spinning_ticks = IF spinning THEN @ + 1 ELSE @,
                 !.data_tyres = Append(@, << d.type_speed_FL + d.type_speed_FR
                                              + d.type_speed_RL + d.type_speed_FR,
                                            divisor >>)]
    IN  [ lap |-> SetAttr(l1, "in_race", d.in_race),
          session |-> [sess EXCEPT
                 !.min_body_height = IF d.ride_height < @ THEN d.ride_height ELSE @,
                 !.max_speed = IF d.car_speed > @ THEN d.car_speed ELSE @] ]

\* _process_lap_data from data_tyres_delta_fl.append on: it needs the four
\* data_tyres_delta_* lists on the lap.
FoldTail(lap, sess, d) ==
    LET divisor == IF d.car_speed = 0 THEN 1 ELSE d.car_speed
        yaw == Append(lap.data_rotation_yaw, d.rotation_yaw)
        rate == IF Len(yaw) > YawInterval
                THEN d.rotation_yaw - yaw[Len(yaw) - YawInterval + 1]
                ELSE 0
        live == lap.lap_ticks * 50 - sess.special_packet_time
    IN  [lap EXCEPT
            !.data_tyres_delta_fl = Append(@, <<d.type_speed_FL, divisor>>),
            !.data_tyres_delta_fr = Append(@, <<d.type_speed_FR, divisor>>),
            !.data_tyres_delta_rl = Append(@, <<d.type_speed_RL, divisor>>),
            !.data_tyres_delta_rr = Append(@, <<d.type_speed_FR, divisor>>),
            !.data_rpm = Append(@, d.rpm),
            !.data_gear = Append(@, d.current_gear),
            !.data_position_x = Append(@, d.position_x),
            !.data_position_y = Append(@, d.position_y),
            !.data_position_z = Append(@, d.position_z),
            !.data_boost = Append(@, d.boost),
            !.data_rotation_yaw = yaw,
            !.data_absolute_yaw_rate_per_second = Append(@, Abs(rate)),
            !.lap_live_time = live,
            !.data_time = Append(@, live),
            !.car_id = d.car_id]

\* _process_lap_data: the lap and session it leaves, and whether it raised.
\* self.current_lap.data_tyres_delta_fl raises AttributeError on a lap that has
\* no such attribute; what was changed before stays changed.
\* On self.current_lap = None the session's extremes are updated and the first
\* use of the lap raises AttributeError.
ProcessLapData(lap, sess, d) ==
    IF lap = None
    THEN [lap |-> None, session |-> FoldHead(Lap0, sess, d).session, raised |-> TRUE]
    ELSE LET h == FoldHead(lap, sess, d)
         IN  IF HasAttr(h.lap, "data_tyres_delta_fl")
             THEN [lap |-> FoldTail(h.lap, h.session, d), session |-> h.session,
                   raised |-> FALSE]
             ELSE [lap |-> h.lap, session |-> h.session, raised |-> TRUE]

\* finish_lap, the lap_finish_time it assigns: first lap_live_time * 1000,
\* then, unconditionally, last_data.last_lap.
FinishTime(lap, d, manual) == d.last_lap

\* finish_lap, the attributes set on the open lap before it is tested.
FinishFields(lap, d, manual) ==
    LET l1 == [lap EXCEPT
                 !.lap_finish_time = FinishTime(lap, d, manual),
                 !.is_replay = ~always_record_data,
                 !.is_manual = manual,
                 !.fuel_at_end = d.current_fuel,
                 !.fuel_consumed = lap.fuel_at_start - d.current_fuel,
                 !.total_laps = d.total_laps,
                 !.car_id = d.car_id,
                 !.number = d.current_lap - 1]
    IN  SetAttr(SetAttr(l1, "fuel_capacity", d.fuel_capacity),
                "estimated_top_speed", d.estimated_top_speed)

\* finish_lap, the test before session.add_lap.
Persistable(lap) == lap.lap_finish_time > 0 /\ Len(lap.data_speed) > 0

\* Mutant of LockAtCallback: the callback is called inside the with block.
LockAtCallback_Held(t) == t

\* finish_lap, who holds _current_lap_lock when the callback is reached:
\* the with block has ended.
LockAtCallback(t) == "none"

\* ---- call frames of finish_lap ------------------------------------------

\* pc: "acquire" (waiting for the lock), "add", "reset", "callback", "return".  via: who called ("loop", "ui", "listener", "callback").
NewFrame(manual, via) ==
    [pc |-> "acquire", manual |-> manual, via |-> via, did_add |-> FALSE, lap_copy |-> <<>>]

Depth(t) == Len(stack[t])
Top(t) == stack[t][Len(stack[t])]
InFinish(t) == Depth(t) > 0
SetTop(t, f) == [stack EXCEPT ![t] = [@ EXCEPT ![Len(@)] = f]]
Push(t, f) == [stack EXCEPT ![t] = Append(@, f)]
Pop(t) == [stack EXCEPT ![t] = SubSeq(@, 1, Len(@) - 1)]

\* The receiver's position after the outermost finish_lap of the loop returns.
RpcAfterReturn(t) == IF t = "rx" /\ Depth(t) = 1 THEN "log" ELSE rpc

\* ---- the samples and laps the environment offers --------------------------
LapTimeMs == 1000
GoodSpeed == 100

Samples ==
    { Sample(id, cur, last, paused, GoodSpeed) :
        id \in 1..MaxId, cur \in 0..MaxLapIndex, last \in {-1, LapTimeMs},
        paused \in BOOLEAN }

Datagrams == Samples \cup {EmptyDecode}

\* What the console sends around the start of a race: unpaused samples with
\* index 0 or 1 after a lap of LapTimeMs.
RaceDatagrams ==
    { Sample(id, cur, LapTimeMs, FALSE, GoodSpeed) : id \in 1..MaxId, cur \in 0..1 }
        \cup {EmptyDecode}

\* What the console sends before a race: samples with index 0 and no last lap.
PreRaceDatagrams ==
    { Sample(id, 0, -1, FALSE, GoodSpeed) : id \in 1..MaxId } \cup {EmptyDecode}

\* Samples with one field outside the range _validate_data accepts, and the
\* same samples in range.
RangeSamples ==
    LET base == { Sample(id, cur, LapTimeMs, FALSE, GoodSpeed) :
                    id \in 1..MaxId, cur \in 1..MaxLapIndex }
    IN  UNION { { s,
                  [s EXCEPT !.car_speed = MaxCarSpeed + 1],
                  [s EXCEPT !.car_speed = -1],
                  [s EXCEPT !.throttle = MaxPedal + 1],
                  [s EXCEPT !.brake = -1],
                  [s EXCEPT !.position_y = -(MaxPosition + 1)] } : s \in base }

\* A lap as read from a lap file, and a fresh Lap(): what callers pass to
\* Session.add_lap and Session.load_laps.
StoredLap ==
    [Lap0 EXCEPT !.lap_finish_time = LapTimeMs, !.lap_ticks = 2,
                 !.data_speed = <<GoodSpeed>>, !.number = 1]

CallerLaps == {Lap0, StoredLap}

\* Laps of a loaded file: two of them carry the same number.
NumberedLaps == CallerLaps \cup {[StoredLap EXCEPT !.lap_finish_time = 2 * LapTimeMs]}

\* The numbers a caller may ask to delete; the last one is no lap's number.
LapNumbers == 0..2

\* A history that a specification does not keep.
NotRecorded == [event |-> "not recorded"]

\* Before any caller has called the session.
NoCall ==
    [ op |-> "none", before |-> Session0, lap |-> None, laps |-> <<>>, mode |-> "none",
      n |-> -1, listeners |-> <<>>, called |-> <<>>, escaped |-> FALSE,
      flags |-> <<FALSE, FALSE, FALSE>>, passed |-> <<>>, registered |-> NotRecorded ]

\* No caller thread is inside delete_lap or load_laps.
NoPending == [op |-> "none"]

\* Nothing received and no heartbeat sent: event is what the receiver last
\* did at its socket, sent the heartbeats it has sent since, on_socket
\* whether one was sent on the socket it is bound to, accepted the packets
\* accepted since the last heartbeat or timeout.
NoHeartbeat == [event |-> "none", sent |-> 0, on_socket |-> FALSE, accepted |-> 0]

\* The heartbeats are recorded in the specifications that start with such a
\* record; in the others the history stays as it is.
Recorded(h) == IF heartbeat = NotRecorded THEN heartbeat ELSE h

\* ---- initial state ------------------------------------------------------
\* No helper function is being called.
NoInput == [fn |-> "none"]
NoOutput == [done |-> FALSE]

\* The receiver and its session after construction, the receiver thread at
\* the given position.
Built(position) ==
    /\ shall_run = TRUE
    /\ shall_restart = FALSE
    /\ current_lap = Lap0
    /\ last_data = <<>>
    /\ last_time_data_received = 0
    /\ was_connected = "unset"
    /\ always_record_data = TRUE
    /\ lapfinish_callback = TRUE
    /\ lock = "none"
    /\ session = Session0
    /\ rpc = position
    /\ previous_lap = -1
    /\ package_id = 0
    /\ package_nr = 0
    /\ stack = [t \in Threads |-> <<>>]
    /\ now = 1
    /\ received = 0
    /\ rx = [kind |-> "none", index |-> -1, over_loop |-> FALSE, over_run |-> FALSE]
    /\ hi_loop = 0
    /\ hi_run = 0
    /\ prev_index = -1
    /\ accepted_at = 0
    /\ added = <<>>
    /\ cb_calls = <<>>
    /\ connection_attempts = 0
    /\ retry_delay = 0
    /\ streak = 0
    /\ bind_failures = 0
    /\ socket_errors = 0
    /\ stop_pc = "idle"
    /\ stops = 0
    /\ on_add_lap_callbacks = <<>>
    /\ on_load_laps_callbacks = <<>>
    /\ last_call = NoCall
    /\ pending = NoPending

\* The same, with no record of the heartbeats.
Constructed(position) ==
    /\ Built(position)
    /\ heartbeat = NotRecorded
    /\ registrations = NotRecorded
    /\ connections = NotRecorded

InitAt(position) ==
    /\ Constructed(position)
    /\ input = NoInput
    /\ output = NoOutput

\* After construction and start(): the receiver thread is at the top of run().
Init == InitAt("bind")

\* ---- the receiver thread --------------------------------------------------

\* _check_connection_event: the value it leaves in _was_connected.
CheckConnectionEvent == IF IsConnected THEN "yes" ELSE "no"

\* _check_connection_event: the on_connected callback, when one is
\* registered, is called if is_connected() and not self._was_connected.
CallsOnConnected == IsConnected /\ was_connected # "yes"

\* The record of the connections after _check_connection_event.
CheckedConnections ==
    IF connections # NotRecorded /\ CallsOnConnected
    THEN [connections EXCEPT !.callbacks = @ + 1]
    ELSE connections

\* The record of the connections after a datagram was received: the receiver
\* becomes connected when it accepts one while is_connected() is false.
BecomesConnected(accepts) ==
    IF connections # NotRecorded /\ accepts /\ ~IsConnected
    THEN [connections EXCEPT !.transitions = @ + 1]
    ELSE connections

\* The while test of _run_communication_loop.
LoopGoesOn == ~shall_restart /\ shall_run

\* recvfrom can return to the receiver: it is at the while test, which lets it
\* in, or it is inside recvfrom already.
AtRecvfrom == (rpc = "recv" /\ LoopGoesOn) \/ rpc = "recvfrom"

\* run(), one turn of its while loop up to the first recvfrom: the socket is
\* created and bound, _run_communication_loop starts with fresh locals and
\* checks the connection event.
EnterLoop ==
    /\ rpc = "bind"
    /\ shall_run
    /\ shall_restart' = FALSE
    /\ previous_lap' = -1
    /\ package_id' = 0
    /\ package_nr' = 0
    /\ was_connected' = CheckConnectionEvent
    /\ connections' = CheckedConnections
    /\ rpc' = "recv"
    /\ hi_run' = 0
    /\ hi_loop' = 0
    /\ connection_attempts' = 0
    /\ streak' = 0
    /\ heartbeat' = Recorded([event |-> "bind", sent |-> 0, on_socket |-> FALSE, accepted |-> 0])
    /\ UNCHANGED <<callers, helperCall, pending, shall_run, always_record_data, lapfinish_callback, current_lap, last_data,
                   last_time_data_received, lock, session, stack, now,
                   received, rx, prev_index, accepted_at, added, cb_calls,
                   retry_delay, bind_failures, socket_errors, stopping>>

\* _run_communication_loop, recvfrom returned datagram d: lines up to the call
\* of finish_lap or of _log_data.
RecvDatagram(d) ==
    /\ AtRecvfrom
    /\ received < MaxRecv
    /\ received' = received + 1
    /\ package_nr' = package_nr + 1
    /\ heartbeat' = Recorded([event |-> "datagram", sent |-> 0,
                              on_socket |-> heartbeat.on_socket,
                              accepted |-> IF Accepts(d, package_id)
                                           THEN heartbeat.accepted + 1
                                           ELSE heartbeat.accepted])
    /\ IF Accepts(d, package_id)
       THEN /\ last_data' = d
            /\ last_time_data_received' = now
            /\ package_id' = d.package_id
            /\ rx' = [kind |-> "accept", index |-> d.current_lap,
                      over_loop |-> d.package_id > hi_loop,
                      over_run |-> d.package_id > hi_run]
            /\ hi_loop' = IF d.package_id > hi_loop THEN d.package_id ELSE hi_loop
            /\ hi_run' = IF d.package_id > hi_run THEN d.package_id ELSE hi_run
            /\ prev_index' = rx.index
            /\ accepted_at' = now
            /\ LET s0 == IF d.current_lap = 0
                         THEN [session EXCEPT !.special_packet_time = 0]
                         ELSE session
               IN  IF IsRecording(d)
                   THEN IF IsNewLap(d, previous_lap)
                        THEN /\ previous_lap' = d.current_lap
                             /\ IF current_lap = None
                                \* self.current_lap.lap_ticks raises AttributeError,
                                \* which leaves the loop as in LogData.
                                THEN /\ session' = s0
                                     /\ rpc' = "bind"
                                     /\ UNCHANGED stack
                                ELSE /\ session' = [s0 EXCEPT
                                           !.special_packet_time =
                                               @ + 3 * d.last_lap - 50 * current_lap.lap_ticks,
                                           !.best_lap = d.best_lap]
                                     /\ stack' = Push("rx", NewFrame(FALSE, "loop"))
                                     /\ rpc' = "finish"
                             /\ UNCHANGED current_lap
                        ELSE /\ session' = s0
                             /\ rpc' = "log"
                             /\ UNCHANGED <<previous_lap, stack, current_lap>>
                   ELSE /\ current_lap' = Lap0
                        /\ session' = s0
                        /\ rpc' = "log"
                        /\ UNCHANGED <<previous_lap, stack>>
       ELSE /\ rx' = [kind |-> IF d = EmptyDecode THEN "empty" ELSE "reject",
                      index |-> rx.index,
                      over_loop |-> d # EmptyDecode /\ d.package_id > hi_loop,
                      over_run |-> d # EmptyDecode /\ d.package_id > hi_run]
            /\ rpc' = "recv"
            /\ UNCHANGED <<last_data, last_time_data_received, package_id, hi_loop, hi_run,
                           prev_index, accepted_at, session, stack, previous_lap,
                           current_lap>>
    /\ connections' = BecomesConnected(Accepts(d, package_id))
    /\ UNCHANGED <<flags, beyondLoop, was_connected, lock, now, added, cb_calls>>

\* if package_nr > 100: the test for the heartbeat after _log_data.
HeartbeatDue(nr) == nr > HeartbeatEvery

\* _run_communication_loop after _log_data returned: every HeartbeatEvery
\* packets a heartbeat is sent and the connection event checked.
AfterLog ==
    /\ IF HeartbeatDue(package_nr)
       THEN /\ package_nr' = 0
            /\ was_connected' = CheckConnectionEvent
            /\ connections' = CheckedConnections
            /\ heartbeat' = Recorded([event |-> heartbeat.event, sent |-> heartbeat.sent + 1,
                                        on_socket |-> TRUE, accepted |-> 0])
       ELSE UNCHANGED <<package_nr, was_connected, connections, heartbeat>>
    /\ rpc' = "recv"

\* _log_data(self.last_data) and what follows it in the loop.  When the fold
\* raises, the exception leaves _run_communication_loop (which catches only
\* OSError and TimeoutError); run() catches it, _handle_general_failure(0)
\* answers True, the socket is closed and the while loop of run() turns again.
LogData ==
    /\ rpc = "log"
    /\ IF LogsData(last_data)
       THEN /\ lock = "none"
            /\ LET r == ProcessLapData(current_lap, session, last_data)
               IN  /\ current_lap' = r.lap
                   /\ session' = r.session
                   /\ IF r.raised
                      THEN /\ rpc' = "bind"
                           /\ UNCHANGED <<package_nr, was_connected, connections, heartbeat>>
                      ELSE AfterLog
       ELSE /\ AfterLog
            /\ UNCHANGED <<current_lap, session>>
    /\ UNCHANGED <<flags, beyondLoop, last_data, last_time_data_received, lock, previous_lap,
                   package_id, stack, now, history, added, cb_calls>>

\* Mutant of RecvTimeout: the package id of the last accepted packet is kept.
RecvTimeout_KeepsId ==
    /\ AtRecvfrom
    /\ package_nr' = 0
    /\ heartbeat' = Recorded([event |-> "timeout", sent |-> 1, on_socket |-> TRUE, accepted |-> 0])
    /\ rpc' = "recv"
    /\ UNCHANGED <<flags, beyondLoop, current_lap, last_data, last_time_data_received, was_connected, connections,
                   lock, session, previous_lap, package_id, stack, now,
                   received, rx, hi_loop, hi_run, prev_index, accepted_at, added, cb_calls>>

\* recvfrom raised OSError or TimeoutError: the counters are reset and a
\* heartbeat is sent.
RecvTimeout ==
    /\ AtRecvfrom
    /\ package_nr' = 0
    /\ package_id' = 0
    /\ hi_run' = 0
    /\ heartbeat' = Recorded([event |-> "timeout", sent |-> 1, on_socket |-> TRUE, accepted |-> 0])
    /\ rpc' = "recv"
    /\ UNCHANGED <<flags, beyondLoop, current_lap, last_data, last_time_data_received, was_connected, connections,
                   lock, session, previous_lap, stack, now,
                   received, rx, hi_loop, prev_index, accepted_at, added, cb_calls>>

\* ---- run(): failures, backoff and giving up --------------------------------

Min(a, b) == IF a <= b THEN a ELSE b

RECURSIVE Pow2(_)
Pow2(n) == IF n <= 0 THEN 1 ELSE 2 * Pow2(n - 1)

\* Mutant of RetryDelay: the delay grows by one second per failure.
RetryDelay_Linear(attempts) == Min(BaseRetryDelay * attempts, MaxRetryDelay)

\* run(): retry_delay = min(base_retry_delay * 2 ** (connection_attempts - 1), 30).
RetryDelay(attempts) == Min(BaseRetryDelay * Pow2(attempts - 1), MaxRetryDelay)

\* _handle_connection_failure: TRUE iff run() shall go on.
HandleConnectionFailure(attempts) == ~(attempts >= ConnectionFailureLimit)

\* _handle_socket_failure: TRUE iff run() shall go on.
HandleSocketFailure(attempts) == ~(attempts >= SocketFailureLimit)

\* _handle_general_failure: TRUE iff run() shall go on.
HandleGeneralFailure(attempts) == ~(attempts >= GeneralFailureLimit)

\* run(), from the end of an except clause whose handler answered goes_on to
\* the end of that turn of the while loop: break when the handler said so or
\* when connection_attempts reached max_consecutive_failures, else sleep
\* retry_delay when connection_attempts > 0.
AfterFailure(goes_on, attempts) ==
    IF ~goes_on \/ attempts >= MaxConsecutiveFailures
    THEN rpc' = "ended" /\ retry_delay' = 0
    ELSE IF attempts > 0
         THEN rpc' = "backoff" /\ retry_delay' = RetryDelay(attempts)
         ELSE rpc' = "bind" /\ retry_delay' = 0

\* run(), one turn of its while loop in which _create_socket raises
\* ConnectionError (socket(), setsockopt() or bind() raised OSError).
CreateSocketFails ==
    /\ rpc = "bind"
    /\ shall_run
    /\ bind_failures < MaxBindFailures
    /\ shall_restart' = FALSE
    /\ connection_attempts' = connection_attempts + 1
    /\ streak' = streak + 1
    /\ bind_failures' = bind_failures + 1
    /\ AfterFailure(HandleConnectionFailure(connection_attempts + 1), connection_attempts + 1)
    /\ UNCHANGED <<callers, helperCall, pending, heartbeat, shall_run, always_record_data, lapfinish_callback, current_lap, last_data,
                   last_time_data_received, was_connected, connections, lock, session, rxLocals, stack, now,
                   history, added, cb_calls, socket_errors, stopping>>

\* time.sleep(retry_delay) returns: the while loop of run() turns again.
SleepReturns ==
    /\ rpc = "backoff"
    /\ now' = now + retry_delay
    /\ retry_delay' = 0
    /\ rpc' = "bind"
    /\ UNCHANGED <<callers, helperCall, pending, heartbeat, flags, current_lap, last_data, last_time_data_received, was_connected, connections,
                   lock, session, rxLocals, stack, history, added, cb_calls,
                   connection_attempts, runHistory, stopping>>

\* _run_communication_loop: recvfrom raised OSError or TimeoutError and the
\* heartbeat sent by the except clause raises OSError itself (sendto failed).
\* The exception leaves the loop; run() catches it as ConnectionError (kind
\* "connection": the OSError is one of its subclasses) or as socket.error
\* (kind "socket"), asks the handler with connection_attempts, which the
\* successful _create_socket has reset to 0, and closes the socket.
SocketErrorInLoop(kind) ==
    /\ AtRecvfrom
    /\ socket_errors < MaxSocketErrors
    /\ socket_errors' = socket_errors + 1
    /\ package_nr' = 0
    /\ package_id' = 0
    /\ hi_run' = 0
    /\ AfterFailure(IF kind = "connection"
                    THEN HandleConnectionFailure(connection_attempts)
                    ELSE HandleSocketFailure(connection_attempts),
                    connection_attempts)
    /\ heartbeat' = Recorded([event |-> "send_failed", sent |-> 0,
                              on_socket |-> heartbeat.on_socket, accepted |-> 0])
    /\ UNCHANGED <<callers, helperCall, pending, flags, current_lap, last_data, last_time_data_received, was_connected, connections,
                   lock, session, previous_lap, stack, now,
                   received, rx, hi_loop, prev_index, accepted_at, added, cb_calls,
                   connection_attempts, streak, bind_failures, stopping>>

\* ---- stop() and the end of run() ------------------------------------------

\* Thread.is_alive() of the receiver: started and run() has not returned.
IsAlive == rpc \notin {"new", "ended"}

\* The receiver passes the while test of _run_communication_loop and calls
\* recvfrom, which blocks until a datagram arrives or the socket's timeout
\* expires.
EnterRecvfrom ==
    /\ rpc = "recv" /\ LoopGoesOn
    /\ rpc' = "recvfrom"
    /\ UNCHANGED <<flags, beyondLoop, heartbeat, current_lap, last_data, last_time_data_received,
                   was_connected, connections, lock, session, rxLocals, stack, now, history, added,
                   cb_calls>>

\* The while test of _run_communication_loop fails: the loop returns and
\* run() closes the socket in its finally clause; connection_attempts is 0, so
\* nothing is slept and the while test of run() comes next.
LoopExits ==
    /\ rpc = "recv" /\ ~LoopGoesOn
    /\ rpc' = "bind"
    /\ UNCHANGED <<flags, beyondLoop, heartbeat, current_lap, last_data, last_time_data_received,
                   was_connected, connections, lock, session, rxLocals, stack, now, history, added,
                   cb_calls>>

\* The while test of run() fails: run() returns and the thread ends.
RunExits ==
    /\ rpc = "bind" /\ ~shall_run
    /\ rpc' = "ended"
    /\ UNCHANGED <<flags, beyondLoop, heartbeat, current_lap, last_data, last_time_data_received,
                   was_connected, connections, lock, session, rxLocals, stack, now, history, added,
                   cb_calls>>

\* stop(), up to is_alive(): both flags are cleared; a thread that is alive is
\* joined, otherwise the cleanup follows at once.
StopBegins ==
    /\ stop_pc = "idle"
    /\ stops < MaxStops
    /\ shall_run' = FALSE
    /\ shall_restart' = FALSE
    /\ stop_pc' = IF IsAlive THEN "join" ELSE "cleanup"
    /\ UNCHANGED <<callers, helperCall, pending, heartbeat, always_record_data, lapfinish_callback, runLocals, runHistory, stops,
                   current_lap, last_data, last_time_data_received, was_connected, connections, lock,
                   session, rpc, rxLocals, stack, now, history, added, cb_calls>>

\* self.join(timeout=5) returns because the thread has ended.
JoinReturns ==
    /\ stop_pc = "join"
    /\ ~IsAlive
    /\ stop_pc' = "cleanup"
    /\ UNCHANGED <<callers, helperCall, pending, heartbeat, flags, runLocals, runHistory, stops, current_lap, last_data,
                   last_time_data_received, was_connected, connections, lock, session, rpc, rxLocals,
                   stack, now, history, added, cb_calls>>

\* self.join(timeout=5) returns after its timeout with the thread alive: the
\* receiver is blocked in recvfrom, whose timeout is longer, or sleeps a
\* retry_delay that is longer.
JoinTimesOut ==
    /\ stop_pc = "join"
    /\ \/ rpc = "recvfrom" /\ SocketTimeout > JoinTimeout
       \/ rpc = "backoff" /\ retry_delay > JoinTimeout
    /\ stop_pc' = "cleanup"
    /\ UNCHANGED <<callers, helperCall, pending, heartbeat, flags, runLocals, runHistory, stops, current_lap, last_data,
                   last_time_data_received, was_connected, connections, lock, session, rpc, rxLocals,
                   stack, now, history, added, cb_calls>>

\* _cleanup_resources: with self._current_lap_lock: self.current_lap = None.
CleanupLap ==
    /\ stop_pc = "cleanup"
    /\ lock = "none"
    /\ current_lap' = None
    /\ stop_pc' = "cleanup_rest"
    /\ UNCHANGED <<callers, helperCall, pending, heartbeat, flags, runLocals, runHistory, stops, last_data,
                   last_time_data_received, was_connected, connections, lock, session, rpc, rxLocals,
                   stack, now, history, added, cb_calls>>

\* _cleanup_resources: self.last_data = None, the callbacks are set to None;
\* stop() returns.
CleanupRest ==
    /\ stop_pc = "cleanup_rest"
    /\ last_data' = None
    /\ lapfinish_callback' = FALSE
    /\ stop_pc' = "idle"
    /\ stops' = stops + 1
    /\ UNCHANGED <<callers, helperCall, pending, heartbeat, shall_run, shall_restart, always_record_data, runLocals, runHistory,
                   current_lap, last_time_data_received, was_connected, connections, lock, session, rpc,
                   rxLocals, stack, now, history, added, cb_calls>>

\* ---- finish_lap, step by step ---------------------------------------------
\* The steps are cut where another thread can observe or disturb the call:
\* at the lock, between the test and session.add_lap and between add_lap and
\* the copy (each reads self.current_lap anew, and the loop's
\* "self.current_lap = Lap()" takes no lock), and at the callback.

Body_NoLock(t) ==
    /\ InFinish(t) /\ Top(t).pc = "acquire"
    /\ IF current_lap = None \/ Len(current_lap.data_speed) = 0
       THEN /\ stack' = Pop(t)
            /\ rpc' = RpcAfterReturn(t)
            /\ UNCHANGED <<lock, current_lap>>
       ELSE LET lap == FinishFields(current_lap, last_data, Top(t).manual)
            IN  /\ lock' = t
                /\ current_lap' = lap
                /\ stack' = SetTop(t, [Top(t) EXCEPT
                                 !.pc = IF Persistable(lap) THEN "add" ELSE "reset"])
                /\ UNCHANGED rpc
    /\ UNCHANGED <<flags, beyondLoop, heartbeat, last_data, last_time_data_received, was_connected, connections,
                   session, rxLocals, now, history, added, cb_calls>>

\* with self._current_lap_lock (blocks until the lock is free), then from the
\* test for an empty open lap to the test before session.add_lap.  No open
\* lap (None) or an empty one returns at once, which releases the lock.
Body(t) ==
    /\ InFinish(t) /\ Top(t).pc = "acquire"
    /\ lock = "none"
    /\ IF current_lap = None \/ Len(current_lap.data_speed) = 0
       THEN /\ stack' = Pop(t)
            /\ rpc' = RpcAfterReturn(t)
            /\ UNCHANGED <<lock, current_lap>>
       ELSE LET lap == FinishFields(current_lap, last_data, Top(t).manual)
            IN  /\ lock' = t
                /\ current_lap' = lap
                /\ stack' = SetTop(t, [Top(t) EXCEPT
                                 !.pc = IF Persistable(lap) THEN "add" ELSE "reset"])
                /\ UNCHANGED rpc
    /\ UNCHANGED <<flags, beyondLoop, heartbeat, last_data, last_time_data_received, was_connected, connections,
                   session, rxLocals, now, history, added, cb_calls>>

\* GT7Session.add_lap up to its listeners: self.laps.append(lap); a Lap has no
\* max_speed attribute, so max_speed is left alone.
AddLap(sess, lap) ==
    [sess EXCEPT !.laps = Append(@, lap),
                 !.max_speed = IF HasAttr(lap, "max_speed") /\ lap.max_speed > @
                               THEN lap.max_speed ELSE @]

\* self.session.add_lap(self.current_lap): the lap is appended and the
\* add-lap listeners, called by add_lap, return.
Add(t) ==
    /\ InFinish(t) /\ Top(t).pc = "add"
    /\ session' = AddLap(session, current_lap)
    /\ added' = Append(added, current_lap)
    /\ stack' = SetTop(t, [Top(t) EXCEPT !.pc = "reset", !.did_add = TRUE])
    /\ UNCHANGED <<flags, beyondLoop, heartbeat, current_lap, last_data, last_time_data_received, was_connected, connections,
                   lock, rpc, rxLocals, now, history, cb_calls>>

\* self.session.add_lap(self.current_lap): the lap is appended and an add-lap
\* listener, called by add_lap, calls finish_lap of the receiver.
AddListenerCallsFinishLap(t) ==
    /\ InFinish(t) /\ Top(t).pc = "add"
    /\ Depth(t) < MaxDepth
    /\ session' = AddLap(session, current_lap)
    /\ added' = Append(added, current_lap)
    /\ stack' = [stack EXCEPT ![t] =
                    Append([@ EXCEPT ![Len(@)] =
                                [Top(t) EXCEPT !.pc = "reset", !.did_add = TRUE]],
                           NewFrame(TRUE, "listener"))]
    /\ UNCHANGED <<flags, beyondLoop, heartbeat, current_lap, last_data, last_time_data_received, was_connected, connections,
                   lock, rpc, rxLocals, now, history, cb_calls>>

\* lap_copy = copy.deepcopy(self.current_lap) when the lap was added; the open
\* lap is replaced by a fresh one that starts with the current fuel; the with
\* block ends.
Reset(t) ==
    /\ InFinish(t) /\ Top(t).pc = "reset"
    /\ current_lap' = [Lap0 EXCEPT !.fuel_at_start = last_data.current_fuel]
    /\ lock' = LockAtCallback(t)
    /\ stack' = SetTop(t, [Top(t) EXCEPT
                     !.pc = "callback",
                     !.lap_copy = IF Top(t).did_add THEN <<current_lap>> ELSE <<>>])
    /\ UNCHANGED <<flags, beyondLoop, heartbeat, last_data, last_time_data_received, was_connected, connections,
                   session, rpc, rxLocals, now, history, added, cb_calls>>

\* TRUE iff finish_lap calls the lap-finished callback.
CallsCallback(f) == f.lap_copy # <<>> /\ lapfinish_callback

\* After the with block: the callback, if any, is called and returns;
\* finish_lap returns.
CallbackReturns(t) ==
    /\ InFinish(t) /\ Top(t).pc \in {"callback", "return"}
    /\ cb_calls' = IF Top(t).pc = "callback" /\ CallsCallback(Top(t))
                   THEN Append(cb_calls, Top(t).lap_copy[1])
                   ELSE cb_calls
    /\ stack' = Pop(t)
    /\ rpc' = RpcAfterReturn(t)
    /\ UNCHANGED <<flags, beyondLoop, heartbeat, current_lap, last_data, last_time_data_received, was_connected, connections,
                   lock, session, rxLocals, now, history, added>>

\* The callback is called and calls finish_lap(manual=True) itself.
CallbackCallsFinishLap(t) ==
    /\ InFinish(t) /\ Top(t).pc = "callback"
    /\ CallsCallback(Top(t))
    /\ Depth(t) < MaxDepth
    /\ cb_calls' = Append(cb_calls, Top(t).lap_copy[1])
    /\ stack' = [stack EXCEPT ![t] =
                    Append([@ EXCEPT ![Len(@)] = [Top(t) EXCEPT !.pc = "return"]],
                           NewFrame(TRUE, "callback"))]
    /\ UNCHANGED <<flags, beyondLoop, heartbeat, current_lap, last_data, last_time_data_received, was_connected, connections,
                   lock, session, rpc, rxLocals, now, history, added>>

\* What a listener does to the lap object it was handed, when it changes it.
ListenerEdit(lap) == SetAttr(lap, "title", "edited")

\* self.session.add_lap(self.current_lap): the lap is appended and an add-lap
\* listener, called by add_lap with that same object, changes it.  The object
\* is the one in session.laps and still the receiver's self.current_lap.
AddListenerMutates(t) ==
    /\ InFinish(t) /\ Top(t).pc = "add"
    /\ session' = AddLap(session, ListenerEdit(current_lap))
    /\ current_lap' = ListenerEdit(current_lap)
    /\ added' = Append(added, current_lap)
    /\ stack' = SetTop(t, [Top(t) EXCEPT !.pc = "reset", !.did_add = TRUE])
    /\ UNCHANGED <<flags, beyondLoop, heartbeat, last_data, last_time_data_received, was_connected, connections,
                   lock, rpc, rxLocals, now, history, cb_calls>>

\* After the with block: the callback is called with lap_copy, changes that
\* object and returns; finish_lap returns.
CallbackMutates(t) ==
    /\ InFinish(t) /\ Top(t).pc = "callback"
    /\ CallsCallback(Top(t))
    /\ cb_calls' = Append(cb_calls, Top(t).lap_copy[1])
    /\ stack' = Pop(t)
    /\ rpc' = RpcAfterReturn(t)
    /\ UNCHANGED <<flags, beyondLoop, heartbeat, current_lap, last_data, last_time_data_received,
                   was_connected, connections, lock, session, rxLocals, now, history, added>>

\* ---- caller threads -------------------------------------------------------

\* RaceTab.log_lap_button_handler: finish_lap(manual=True) on the UI thread.
UiFinishLap ==
    /\ ~InFinish("ui")
    /\ stack' = Push("ui", NewFrame(TRUE, "ui"))
    /\ UNCHANGED <<flags, beyondLoop, heartbeat, current_lap, last_data, last_time_data_received, was_connected, connections,
                   lock, session, rpc, rxLocals, now, history, added, cb_calls>>

\* The callables callers register as listeners: two that return and one that
\* raises an Exception whenever it is called.
Callbacks == {"update_a", "update_b", "faulty"}

\* callback(lap) / callback(laps): how the call ends.
Outcome(cb) == IF cb = "faulty" THEN "Exception" ELSE "returned"

Caught_Nothing(outcome) == FALSE

\* except Exception as e: logger.error(...)
Caught(outcome) == outcome = "Exception"

\* for callback in callbacks: try: callback(...) except Exception: ..., from
\* the i-th callback on: the callbacks called, and whether an exception left
\* the loop.
RECURSIVE Notify(_, _)
Notify(callbacks, i) ==
    IF i > Len(callbacks) THEN [called |-> <<>>, escaped |-> FALSE]
    ELSE LET outcome == Outcome(callbacks[i])
         IN  IF outcome = "returned" \/ Caught(outcome)
             THEN LET rest == Notify(callbacks, i + 1)
                  IN  [called |-> <<callbacks[i]>> \o rest.called, escaped |-> rest.escaped]
             ELSE [called |-> <<callbacks[i]>>, escaped |-> TRUE]

\* if callback not in callbacks: callbacks.append(callback)
Register(callbacks, cb) ==
    IF \E i \in 1..Len(callbacks) : callbacks[i] = cb THEN callbacks
    ELSE Append(callbacks, cb)

\* GT7Session.set_on_add_lap_callback
SetOnAddLapCallback(cb) ==
    /\ on_add_lap_callbacks' = Register(on_add_lap_callbacks, cb)
    /\ UNCHANGED <<flags, helperCall, pending, heartbeat, runLocals, runHistory, stopping, on_load_laps_callbacks, registrations, last_call,
                   current_lap, last_data, last_time_data_received, was_connected, connections,
                   lock, session, rpc, rxLocals, stack, now, history, added, cb_calls>>

\* GT7Session.set_on_load_laps_callback
SetOnLoadLapsCallback(cb) ==
    /\ registrations # NotRecorded => registrations[cb] < MaxRegistrations
    /\ on_load_laps_callbacks' = Register(on_load_laps_callbacks, cb)
    /\ registrations' = IF registrations = NotRecorded THEN registrations
                        ELSE [registrations EXCEPT ![cb] = @ + 1]
    /\ UNCHANGED <<flags, helperCall, pending, heartbeat, runLocals, runHistory, stopping, on_add_lap_callbacks, last_call,
                   current_lap, last_data, last_time_data_received, was_connected, connections,
                   lock, session, rpc, rxLocals, stack, now, history, added, cb_calls>>

\* GT7Session.add_lap called by a caller thread: the lap is appended, then
\* the add-lap listeners are called.
SessionAddLap(lap) ==
    /\ ~InFinish("ui")
    /\ Len(session.laps) < MaxCallerLaps
    /\ session' = AddLap(session, lap)
    /\ LET r == Notify(on_add_lap_callbacks, 1)
       IN  last_call' = [NoCall EXCEPT !.op = "add", !.before = session, !.lap = lap,
                                       !.listeners = on_add_lap_callbacks,
                                       !.called = r.called, !.escaped = r.escaped]
    /\ UNCHANGED <<flags, helperCall, pending, heartbeat, runLocals, runHistory, stopping, registry,
                   current_lap, last_data, last_time_data_received, was_connected, connections,
                   lock, rpc, rxLocals, stack, now, history, added, cb_calls>>

LoadLaps_ReplaceFirst(sess, laps, to_last, to_first, replace) ==
    LET l == IF replace THEN laps
             ELSE IF to_last THEN sess.laps \o laps
             ELSE IF to_first THEN laps \o sess.laps
             ELSE sess.laps
    IN  [sess EXCEPT !.laps = l, !.max_speed = IF l # <<>> THEN 0 ELSE @]

\* GT7Session.load_laps up to its listeners.  No lap has a max_speed
\* attribute, so getattr(lap, "max_speed", 0) is 0 for each.
LoadLaps(sess, laps, to_last, to_first, replace) ==
    LET l == IF to_last THEN sess.laps \o laps
             ELSE IF to_first THEN laps \o sess.laps
             ELSE IF replace THEN laps
             ELSE sess.laps
        speeds == { IF HasAttr(l[i], "max_speed") THEN l[i].max_speed ELSE 0 : i \in 1..Len(l) }
    IN  [sess EXCEPT !.laps = l,
                     !.max_speed = IF l # <<>>
                                   THEN CHOOSE m \in speeds : \A s \in speeds : s <= m
                                   ELSE @]

\* GT7Session.load_laps called by a caller thread with one lap: the list is
\* rebuilt, then the load listeners are called.
SessionLoadLaps(lap, to_last, to_first, replace) ==
    /\ ~InFinish("ui")
    /\ Len(session.laps) < MaxCallerLaps
    /\ session' = LoadLaps(session, <<lap>>, to_last, to_first, replace)
    /\ LET r == Notify(on_load_laps_callbacks, 1)
       IN  last_call' = [NoCall EXCEPT !.op = "load", !.before = session, !.laps = <<lap>>,
                                       !.mode = IF to_last THEN "last"
                                                ELSE IF to_first THEN "first"
                                                ELSE IF replace THEN "replace" ELSE "none",
                                       !.listeners = on_load_laps_callbacks,
                                       !.called = r.called, !.escaped = r.escaped,
                                       !.flags = <<to_last, to_first, replace>>,
                                       !.passed = [i \in 1..Len(r.called) |-> <<lap>>],
                                       !.registered = registrations]
    /\ UNCHANGED <<flags, helperCall, pending, heartbeat, runLocals, runHistory, stopping, registry,
                   current_lap, last_data, last_time_data_received, was_connected, connections,
                   lock, rpc, rxLocals, stack, now, history, added, cb_calls>>

RECURSIVE DeleteLap_FirstOnly(_, _)
DeleteLap_FirstOnly(sess, lap_number) ==
    IF sess.laps = <<>> THEN sess
    ELSE IF HasAttr(Head(sess.laps), "number") /\ Head(sess.laps).number = lap_number
         THEN [sess EXCEPT !.laps = Tail(@)]
         ELSE [sess EXCEPT !.laps = <<Head(@)>> \o
                              DeleteLap_FirstOnly([sess EXCEPT !.laps = Tail(@)], lap_number).laps]

\* GT7Session.delete_lap: the list of the laps whose number is not
\* lap_number (getattr(lap, "number", None) is None for a lap without one).
DeleteLap(sess, lap_number) ==
    LET differs(lap) == ~(HasAttr(lap, "number") /\ lap.number = lap_number)
    IN  [sess EXCEPT !.laps = SelectSeq(@, differs)]

\* GT7Session.delete_lap called by a caller thread
\* (RaceTimeDataTable.delete_selected_laps, once per selected row).
SessionDeleteLap(lap_number) ==
    /\ ~InFinish("ui")
    /\ session' = DeleteLap(session, lap_number)
    /\ last_call' = [NoCall EXCEPT !.op = "delete", !.before = session, !.n = lap_number]
    /\ UNCHANGED <<flags, helperCall, pending, heartbeat, runLocals, runHistory, stopping, registry,
                   current_lap, last_data, last_time_data_received, was_connected, connections,
                   lock, rpc, rxLocals, stack, now, history, added, cb_calls>>

\* The wall clock advances by one second.
Tick ==
    /\ now < MaxTime
    /\ now' = now + 1
    /\ UNCHANGED <<flags, beyondLoop, heartbeat, current_lap, last_data, last_time_data_received, was_connected, connections,
                   lock, session, rpc, rxLocals, stack, history, added, cb_calls>>

\* ---- specifications -------------------------------------------------------

\* The receiver thread.
RxStep ==
    \/ EnterLoop
    \/ \E d \in Datagrams : RecvDatagram(d)
    \/ LogData
    \/ RecvTimeout

\* A finish_lap call of thread t whose listeners and callback return.
FinishStep(t) ==
    \/ Body(t)
    \/ Add(t)
    \/ Reset(t)
    \/ CallbackReturns(t)

\* The receiver, manual finishes from the UI thread, and listeners and
\* callbacks that call finish_lap again.
Next ==
    \/ RxStep
    \/ \E t \in Threads : FinishStep(t)
    \/ \E t \in Threads : AddListenerCallsFinishLap(t)
    \/ \E t \in Threads : CallbackCallsFinishLap(t)
    \/ UiFinishLap

Spec == Init /\ [][Next]_vars

\* The receiver and callers of Session.add_lap and Session.load_laps.
NextSession ==
    \/ RxStep
    \/ FinishStep("rx")
    \/ \E lap \in CallerLaps : SessionAddLap(lap)
    \/ \E lap \in CallerLaps, f \in {"last", "first", "replace", "none"} :
          SessionLoadLaps(lap, f = "last", f = "first", f = "replace")

SpecSession == Init /\ [][NextSession]_vars

\* Callers that add, load and delete laps of a session without listeners.
NextLaps ==
    \/ \E lap \in NumberedLaps : SessionAddLap(lap)
    \/ \E lap \in NumberedLaps, f \in {"last", "first", "replace", "none"} :
          SessionLoadLaps(lap, f = "last", f = "first", f = "replace")
    \/ \E n \in LapNumbers : SessionDeleteLap(n)

SpecLaps == Init /\ [][NextLaps]_vars

\* Callers that register listeners and add and load laps.
NextNotify ==
    \/ \E cb \in Callbacks : SetOnAddLapCallback(cb)
    \/ \E cb \in Callbacks : SetOnLoadLapsCallback(cb)
    \/ \E lap \in CallerLaps : SessionAddLap(lap)
    \/ \E lap \in CallerLaps, f \in {"last", "first", "replace", "none"} :
          SessionLoadLaps(lap, f = "last", f = "first", f = "replace")

SpecNotify == Init /\ [][NextNotify]_vars

\* The receiver and the wall clock.
NextClock ==
    \/ RxStep
    \/ FinishStep("rx")
    \/ Tick

SpecClock == Init /\ [][NextClock]_vars

\* The receiver with failing binds, backoff and socket errors in the loop,
\* while the console is before the race (index 0: finish_lap is not called).
NextRun ==
    \/ EnterLoop
    \/ \E d \in PreRaceDatagrams : RecvDatagram(d)
    \/ LogData
    \/ RecvTimeout
    \/ CreateSocketFails
    \/ SleepReturns
    \/ \E kind \in {"connection", "socket"} : SocketErrorInLoop(kind)

SpecRun == Init /\ [][NextRun]_vars

\* The receiver during a race, with samples in and out of range.
NextValidate ==
    \/ EnterLoop
    \/ \E d \in RangeSamples : RecvDatagram(d)
    \/ LogData
    \/ RecvTimeout
    \/ FinishStep("rx")

SpecValidate == Init /\ [][NextValidate]_vars

\* The receiver, started or not, failing binds, and callers of stop().
NextStop ==
    \/ EnterLoop
    \/ EnterRecvfrom
    \/ \E d \in RaceDatagrams : RecvDatagram(d)
    \/ LogData
    \/ RecvTimeout
    \/ FinishStep("rx")
    \/ CreateSocketFails
    \/ SleepReturns
    \/ LoopExits
    \/ RunExits
    \/ StopBegins
    \/ JoinReturns
    \/ JoinTimesOut
    \/ CleanupLap
    \/ CleanupRest

\* After construction, before or after start().
InitStop == InitAt("new") \/ InitAt("bind")

SpecStop == InitStop /\ [][NextStop]_vars

\* The receiver with listeners and a callback that change the lap they get.
NextMutate ==
    \/ EnterLoop
    \/ \E d \in Datagrams : RecvDatagram(d)
    \/ LogData
    \/ RecvTimeout
    \/ FinishStep("rx")
    \/ AddListenerMutates("rx")
    \/ CallbackMutates("rx")

SpecMutate == Init /\ [][NextMutate]_vars

\* ---- properties -----------------------------------------------------------

\* The step is a receive (recvfrom returned a datagram).
ReceiveStep == received' = received + 1

\* The receiver is between two samples (not handling one).
BetweenSamples == rpc \in {"recv", "bind"}

\* The per-tick arrays of a lap named in the claim about array lengths.
TickArrays(lap) ==
    << lap.data_speed, lap.data_throttle, lap.data_braking, lap.data_coasting,
       lap.data_tyres, lap.data_rpm, lap.data_gear, lap.data_boost,
       lap.data_rotation_yaw, lap.data_position_x, lap.data_position_y,
       lap.data_position_z, lap.data_time >>

C2_SessionLapsPersistable ==
    \A i \in 1..Len(session.laps) :
        session.laps[i].lap_finish_time > 0 /\ Len(session.laps[i].data_speed) > 0

\* C3, as stated: every per-tick array of a lap that finish_lap handed to the
\* session has the same length, and that length is the lap's lap_ticks.
C3_ArraysMatchLapTicks ==
    \A i \in 1..Len(added) :
        \A k \in 1..Len(TickArrays(added[i])) :
            Len(TickArrays(added[i])[k]) = added[i].lap_ticks

\* C4, as stated: an accepted sample with a positive index makes the receiver
\* call finish_lap exactly when its index differs from the index of the
\* accepted sample before it.
C4_FinishExactlyOnIndexChange ==
    [][(ReceiveStep /\ rx'.kind = "accept" /\ rx'.index > 0)
         => ((rx'.index # rx.index) <=> (rpc' = "finish"))]_vars

\* C5, as stated: while the index of the last accepted sample is 0 the open
\* lap holds no samples.
C5_IndexZeroLapEmpty ==
    (rx.index = 0 /\ BetweenSamples) => Len(current_lap.data_speed) = 0

\* C5, amended: an accepted sample with index 0 replaces the open lap by a
\* fresh one without calling finish_lap (the session's laps and the callback
\* are untouched by it); only that sample is then folded, so while the index of
\* the last accepted sample is 0 the open lap holds at most one sample.
C5_IndexZeroDiscards ==
    /\ [][(ReceiveStep /\ rx'.kind = "accept" /\ rx'.index = 0)
            => /\ current_lap' = Lap0
               /\ session'.laps = session.laps
               /\ cb_calls' = cb_calls /\ added' = added
               /\ rpc' = "log" /\ stack' = stack]_vars
    /\ []((rx.index = 0 /\ rx.kind # "none") => Len(current_lap.data_speed) <= 1)

\* C5 witness: the open lap held samples, a sample with index 0 was accepted
\* and folded, and the session has no lap.
C5_Witness ==
    /\ rx.index = 0 /\ prev_index > 0 /\ BetweenSamples
    /\ Len(current_lap.data_speed) = 1
    /\ session.laps = <<>>

\* Number of occurrences of x in the sequence q.
Count(q, x) == Cardinality({i \in 1..Len(q) : q[i] = x})

\* C6, as stated: right after finish_lap has set the open lap's fields, a
\* manual finish has lap_finish_time equal to the lap's live time (both in
\* thirds of a millisecond here) and a non-manual finish has the last accepted
\* sample's last_lap.
C6_ManualUsesLiveTime ==
    \A t \in Threads :
        (InFinish(t) /\ Top(t).pc \in {"add", "reset"} /\ ~Top(t).did_add
            /\ current_lap.is_manual = Top(t).manual
            /\ Len(current_lap.data_speed) > 0)
        => IF Top(t).manual
           THEN 3 * current_lap.lap_finish_time = current_lap.lap_live_time
           ELSE current_lap.lap_finish_time = last_data.last_lap

\* C7: a thread that is in the lap-finished callback of finish_lap does not
\* hold _current_lap_lock, and a finish_lap called from that callback never
\* waits for a lock its own thread holds.
C7_CallbackOutsideLock ==
    \A t \in Threads :
        InFinish(t) =>
            /\ Top(t).pc \in {"callback", "return"} => lock # t
            /\ (Top(t).via = "callback" /\ Top(t).pc = "acquire") => lock # t

\* C7 witness: a finish_lap called from the lap-finished callback has taken
\* the lock.
C7_Witness ==
    \E t \in Threads :
        InFinish(t) /\ Top(t).via = "callback" /\ Top(t).pc \in {"add", "reset"} /\ lock = t

\* C8, as stated: a finish_lap called from an add-lap listener never waits
\* for a lock its own thread holds.
C8_ListenerFinishLapNotBlocked ==
    \A t \in Threads :
        (InFinish(t) /\ Top(t).via = "listener" /\ Top(t).pc = "acquire") => lock # t

\* C9, as stated: every lap handed to the lap-finished callback is a lap that
\* finish_lap added to the session, handed over no more often than it was
\* added; and when no finish_lap is in progress every added lap has been
\* handed over as often as it was added.
C9_CallbackOncePerAddedLap ==
    /\ \A i \in 1..Len(cb_calls) : Count(cb_calls, cb_calls[i]) <= Count(added, cb_calls[i])
    /\ (\A t \in Threads : ~InFinish(t))
          => \A i \in 1..Len(added) : Count(cb_calls, added[i]) = Count(added, added[i])

\* C10: is_connected() is true exactly when a sample has been accepted and
\* the last accepted one is at most ConnectedWindow seconds old.
C10_ConnectedIffFresh ==
    IsConnected <=> (accepted_at > 0 /\ now - accepted_at <= ConnectedWindow)

\* C10 witness: a sample was accepted, more than a second passed, and a
\* datagram received after that was rejected: is_connected() is false.
C10_Witness ==
    /\ accepted_at > 0 /\ now - accepted_at > ConnectedWindow
    /\ rx.kind \in {"reject", "empty"} /\ ~IsConnected

\* C11: after the n-th consecutive failure of _create_socket, n < 5, the
\* receiver sleeps min(2^(n-1), 30) seconds and only then binds again; the
\* 5th consecutive failure ends run() without a sleep; once run() has ended
\* no bind is attempted and is_connected() is false.
C11_BackoffThenGiveUp ==
    /\ [][(bind_failures' = bind_failures + 1) =>
            IF streak' < MaxConsecutiveFailures
            THEN /\ rpc' = "backoff"
                 /\ retry_delay' = Min(Pow2(streak' - 1), MaxRetryDelay)
            ELSE rpc' = "ended"]_vars
    /\ [][(rpc = "backoff") => (rpc' = "bind" /\ now' = now + retry_delay)]_vars
    /\ [](rpc = "ended" =>
            /\ streak = MaxConsecutiveFailures
            /\ ~IsConnected
            /\ ~ENABLED (EnterLoop \/ CreateSocketFails))

\* C11 witness: the receiver was connected, then five consecutive binds failed
\* and run() ended.
C11_Witness ==
    rpc = "ended" /\ accepted_at > 0 /\ streak = MaxConsecutiveFailures /\ now - accepted_at >= 15

\* C12, as stated: every socket error raised out of the listening loop is
\* followed by a backoff delay before the next bind, or ends run().
C12_SocketErrorBacksOff ==
    [][(socket_errors' = socket_errors + 1) => rpc' \in {"backoff", "ended"}]_vars

\* The receiver is in _run_communication_loop (its socket is bound).
Listening == rpc \in {"recv", "recvfrom", "finish", "log"}

\* C13, as stated: no datagram, receive timeout, out-of-range sample or
\* exception raised while a sample is folded or finalized takes the receiver
\* out of its listening loop, and run() has ended only after the failure
\* threshold was reached or stop() was called.
C13_ErrorsKeepListening ==
    /\ [][(Listening /\ socket_errors' = socket_errors) => Listening']_vars
    /\ [](rpc = "ended" => (streak >= MaxConsecutiveFailures \/ ~shall_run))

\* What the fold changes on a lap and on the session.
TickState(lap, sess) ==
    << TickArrays(lap), lap.lap_ticks, lap.full_throttle_ticks, lap.full_brake_ticks,
       lap.no_throttle_and_no_brake_ticks, lap.throttle_and_brake_ticks,
       lap.tyres_overheated_ticks, lap.tyres_spinning_ticks,
       sess.max_speed, sess.min_body_height >>

\* The sample being handled, or handled last, was accepted with the positive
\* index of the accepted sample before it and fails _validate_data.
OutOfRangeSameIndex ==
    /\ rx.kind = "accept" /\ rx.index > 0 /\ rx.index = prev_index
    /\ ~ValidateData(last_data)

\* C14, as stated: from its receipt to the end of its handling by the
\* receiver, an accepted out-of-range sample with the positive index of the
\* sample before it leaves the open lap's per-tick arrays, lap_ticks and tick
\* counters and the session's max_speed and min_body_height as they were.
C14_OutOfRangeLeavesLap ==
    [][((ReceiveStep /\ OutOfRangeSameIndex') \/ (OutOfRangeSameIndex /\ rpc \in {"finish", "log"}))
         => TickState(current_lap', session') = TickState(current_lap, session)]_vars

\* A call of stop() has returned and none is in progress.
Stopped == stops > 0 /\ stop_pc = "idle"

\* C15, as stated: every call of stop(), the first or a later one, on a thread
\* that runs, was never started or has ended, leaves the receiver in the
\* stopped state: run flag false, callbacks cleared, no open lap.
C15_StopLeavesStoppedState ==
    Stopped => (~shall_run /\ ~shall_restart /\ ~lapfinish_callback /\ current_lap = None)

\* C16, as stated (its safety half): once stop() has returned the socket has
\* been released, and no later datagram is folded into a lap or finalizes one.
C16_NothingAfterStop ==
    /\ [](Stopped => ~Listening)
    /\ [][Stopped => /\ (current_lap' = current_lap \/ current_lap' = None)
                     /\ session' = session
                     /\ added' = added /\ cb_calls' = cb_calls]_vars

\* C17, as stated: whatever a listener or the callback does to the lap it is
\* handed, each lap finish_lap stored in the session is as it was when it was
\* added, and the receiver's open lap carries no change made by a listener.
C17_ListenersGetCopies ==
    /\ Len(session.laps) = Len(added)
    /\ \A i \in 1..Len(added) : session.laps[i] = added[i]
    /\ current_lap # None => ~HasAttr(current_lap, "title")

\* The positions of the laps of a list whose number is not n.
OtherNumbers(laps, n) == { j \in 1..Len(laps) : laps[j].number # n }

\* C18: after delete_lap(n) the lap list is the list before it without the
\* laps whose number is n: the other laps are all there, unchanged and in the
\* order they had, nothing else of the session has changed, and when no lap
\* has the number n the list is the one before.
C18_DeleteRemovesExactlyNumber ==
    last_call.op = "delete" =>
        LET before == last_call.before.laps
            keep == OtherNumbers(before, last_call.n)
            nth(i) == CHOOSE j \in keep : Cardinality({k \in keep : k < j}) = i - 1
        IN  /\ Len(session.laps) = Cardinality(keep)
            /\ \A i \in 1..Len(session.laps) : session.laps[i] = before[nth(i)]
            /\ keep = 1..Len(before) => session.laps = before
            /\ [session EXCEPT !.laps = before] = last_call.before

\* A delete that removed one of two laps carrying the same number apart from
\* a lap between them, and kept that lap.
C18_Witness ==
    /\ last_call.op = "delete"
    /\ Len(last_call.before.laps) = 3
    /\ last_call.before.laps[1].number = last_call.n
    /\ last_call.before.laps[2].number # last_call.n
    /\ last_call.before.laps[3].number = last_call.n
    /\ session.laps = <<last_call.before.laps[2]>>

\* C19, as stated: immediately after add_lap(L), L is at index 0 of
\* get_laps().
C19_AddedLapIsFirst ==
    last_call.op = "add" => session.laps[1] = last_call.lap

\* C20: when add_lap or load_laps has notified its listeners, every listener
\* registered at the time of the call was called, once and in registration
\* order, whether or not one of them raised; no exception reached the
\* caller; and the lap list is the one the call built.
C20_RaisingListenerIsolated ==
    last_call.op \in {"add", "load"} =>
        /\ last_call.called = last_call.listeners
        /\ ~last_call.escaped
        /\ last_call.op = "add" =>
               session.laps = last_call.before.laps \o <<last_call.lap>>
        /\ last_call.op = "load" =>
               session.laps = CASE last_call.mode = "last" -> last_call.before.laps \o last_call.laps
                                [] last_call.mode = "first" -> last_call.laps \o last_call.before.laps
                                [] last_call.mode = "replace" -> last_call.laps
                                [] OTHER -> last_call.before.laps

\* Three listeners were registered, the one that raises first, and a lap was
\* added.
C20_Witness ==
    /\ last_call.op = "add"
    /\ Len(last_call.listeners) = 3
    /\ Outcome(last_call.listeners[1]) = "Exception"
    /\ Len(session.laps) > Len(last_call.before.laps)

\* ---- gt7helper.py: the median lap ------------------------------------------

\* The attributes of a Lap that are lists and those that are booleans; the
\* others modelled are numbers.
ListFields ==
    { "data_throttle", "data_braking", "data_coasting", "data_speed", "data_time",
      "data_rpm", "data_gear", "data_tyres", "data_position_x", "data_position_y",
      "data_position_z", "data_boost", "data_rotation_yaw",
      "data_absolute_yaw_rate_per_second" }
BoolFields == {"is_replay", "is_manual"}

\* The number Python computes with for attribute k of a lap (True is 1).
Num(lap, k) == IF k \in BoolFields THEN (IF lap[k] THEN 1 ELSE 0) ELSE lap[k]

\* A value that is not None, as an element of a list that may hold None.
Some(x) == [some |-> x]

\* sorted(data): insertion after the elements that are not greater.
RECURSIVE Sorted(_)
Sorted(data) ==
    IF data = <<>> THEN <<>>
    ELSE LET rest == Sorted(Tail(data))
             x == Head(data)
             below == SelectSeq(rest, LAMBDA y : y < x)
             above == SelectSeq(rest, LAMBDA y : y >= x)
         IN  below \o <<x>> \o above

\* The middle of sorted data, in halves: the middle value of an odd number
\* of values, (a + b) / 2 of the two middle values of an even number.
MiddleInHalves_Upper(sorted) == 2 * sorted[(Len(sorted) \div 2) + 1]

MiddleInHalves(sorted) ==
    LET n == Len(sorted)
    IN  IF n % 2 = 1 THEN 2 * sorted[(n \div 2) + 1]
        ELSE sorted[n \div 2] + sorted[(n \div 2) + 1]

\* none_ignoring_median: the None values are dropped, the rest sorted;
\* StatisticsError when nothing is left.  The value is given in halves.
NoneIgnoringMedian(data) ==
    LET present == SelectSeq(data, LAMBDA d : d # None)
        filtered_data == Sorted([i \in 1..Len(present) |-> present[i].some])
    IN  IF Len(filtered_data) = 0 THEN [raised |-> TRUE, value |-> 0]
        ELSE [raised |-> FALSE, value |-> MiddleInHalves(filtered_data)]

\* statistics.median: StatisticsError for no data.  The value is in halves.
StatisticsMedian(data) ==
    IF Len(data) = 0 THEN [raised |-> TRUE, value |-> 0]
    ELSE [raised |-> FALSE, value |-> MiddleInHalves(Sorted(data))]

\* itertools.zip_longest(*lists, fillvalue=None): one tuple per index of the
\* longest list.
ZipLongest(lists) ==
    LET lens == { Len(lists[i]) : i \in 1..Len(lists) }
        longest == IF lens = {} THEN 0 ELSE CHOOSE m \in lens : \A l \in lens : l <= m
    IN  [k \in 1..longest |->
            [i \in 1..Len(lists) |-> IF k <= Len(lists[i]) THEN Some(lists[i][k]) ELSE None]]

GetBestLap_First(laps) == laps[1]

\* get_best_lap of a list with a lap in it: sorted(laps, key=finish time)[0],
\* the first of the laps with the smallest finish time.
GetBestLap(laps) ==
    LET i == CHOOSE i \in 1..Len(laps) :
                 /\ \A j \in 1..Len(laps) : laps[i].lap_finish_time <= laps[j].lap_finish_time
                 /\ \A j \in 1..(i - 1) : laps[j].lap_finish_time > laps[i].lap_finish_time
    IN  laps[i]

\* filter_max_min_laps
FilterMaxMinLaps(laps, max_lap_time, min_lap_time) ==
    LET below == IF max_lap_time > 0
                 THEN SelectSeq(laps, LAMBDA l : l.lap_finish_time <= max_lap_time)
                 ELSE laps
    IN  IF min_lap_time > 0
        THEN SelectSeq(below, LAMBDA l : l.lap_finish_time >= min_lap_time)
        ELSE below

\* A fresh Lap() with its numbers written in halves.
InHalves(lap) ==
    [k \in DOMAIN lap |->
        IF k \in ListFields THEN [j \in 1..Len(lap[k]) |-> 2 * lap[k][j]]
        ELSE 2 * Num(lap, k)]

\* get_median_lap.  The numbers of the lap it returns are given in halves
\* (the title it writes is not modelled).
GetMedianLap(laps) ==
    IF Len(laps) = 0 THEN [done |-> TRUE, raised |-> TRUE, value |-> None]
    ELSE
        LET best_lap == GetBestLap(laps)
            kept == FilterMaxMinLaps(laps, best_lap.lap_finish_time + TenSeconds,
                                     best_lap.lap_finish_time - TenSeconds)
            attributes(val) ==
                IF val \in ListFields
                THEN LET full == SelectSeq(kept, LAMBDA lap : lap[val] # <<>>)
                     IN  [i \in 1..Len(full) |-> full[i][val]]
                ELSE [i \in 1..Len(kept) |-> Num(kept[i], val)]
            columns(val) == ZipLongest(attributes(val))
            medians(val) == [k \in 1..Len(columns(val)) |-> NoneIgnoringMedian(columns(val)[k])]
        IN  IF Len(kept) = 0
            THEN [done |-> TRUE, raised |-> FALSE, value |-> InHalves(Lap0)]
            ELSE IF \E val \in ListFields : \E k \in 1..Len(medians(val)) : medians(val)[k].raised
            THEN [done |-> TRUE, raised |-> TRUE, value |-> None]
            ELSE [done |-> TRUE, raised |-> FALSE,
                  value |-> [val \in DOMAIN kept[1] |->
                                IF Len(attributes(val)) = 0 THEN InHalves(Lap0)[val]
                                ELSE IF val \in ListFields
                                THEN [k \in 1..Len(medians(val)) |-> medians(val)[k].value]
                                ELSE StatisticsMedian(attributes(val)).value]]

\* The laps a caller hands to the helpers: finish times within and beyond
\* ten seconds of each other, speed arrays of different lengths.
HelperLaps ==
    { [Lap0 EXCEPT !.lap_finish_time = t, !.data_speed = sp] :
        t \in {LapTimeMs, LapTimeMs + 2, LapTimeMs + TenSeconds, LapTimeMs + TenSeconds + 1},
        sp \in {<<>>, <<4>>, <<1, 7>>} }

RECURSIVE SeqsUpTo(_, _)
SeqsUpTo(S, n) ==
    IF n = 0 THEN {<<>>}
    ELSE LET shorter == SeqsUpTo(S, n - 1)
         IN  shorter \cup { Append(q, x) : q \in shorter, x \in S }

MedianInputs == { [fn |-> "get_median_lap", laps |-> l] : l \in SeqsUpTo(HelperLaps, MaxHelperLaps) }

InitMedian ==
    /\ Constructed("new")
    /\ input \in MedianInputs
    /\ output = NoOutput

\* What the receiver, its session and the callers' records are left as by a
\* helper call.
helperFrame ==
    <<flags, runLocals, runHistory, stopping, callers, current_lap, last_data,
      last_time_data_received, was_connected, connections, lock, session, rpc, rxLocals, stack, now,
      history, added, cb_calls, pending, heartbeat>>

\* get_median_lap(laps) is called and returns or raises.
CallGetMedianLap ==
    /\ input.fn = "get_median_lap" /\ ~output.done
    /\ output' = GetMedianLap(input.laps)
    /\ UNCHANGED <<input, helperFrame>>

NextMedian == CallGetMedianLap

SpecMedian == InitMedian /\ [][NextMedian]_vars

\* The r-th smallest of the values val(i), i in I.
RankValue(I, val(_), r) ==
    CHOOSE v \in { val(i) : i \in I } :
        /\ Cardinality({ i \in I : val(i) < v }) < r
        /\ r <= Cardinality({ i \in I : val(i) <= v })

\* The median of the values val(i), i in I, in halves.
MedianOf(I, val(_)) ==
    LET n == Cardinality(I)
    IN  IF n % 2 = 1 THEN 2 * RankValue(I, val, (n + 1) \div 2)
        ELSE RankValue(I, val, n \div 2) + RankValue(I, val, (n \div 2) + 1)

\* C21: get_median_lap of a list with laps in it keeps the laps whose finish
\* time is within ten seconds of the fastest one's and returns a lap whose
\* scalar fields are the medians over the laps kept and whose array fields
\* hold at each index the median of the values the laps kept have at that
\* index, so that each array is as long as the longest one that went in.
C21_MedianLapPerIndex ==
    (input.fn = "get_median_lap" /\ output.done /\ input.laps # <<>>) =>
        LET laps == input.laps
            times == { laps[i].lap_finish_time : i \in 1..Len(laps) }
            fastest == CHOOSE t \in times : \A u \in times : t <= u
            kept == { i \in 1..Len(laps) : Abs(laps[i].lap_finish_time - fastest) <= TenSeconds }
            lens(f) == { Len(laps[i][f]) : i \in kept }
            longest(f) == CHOOSE m \in lens(f) : \A l \in lens(f) : l <= m
        IN  /\ ~output.raised
            /\ \A f \in (DOMAIN Lap0) \ ListFields :
                   LET val(i) == Num(laps[i], f) IN output.value[f] = MedianOf(kept, val)
            /\ \A f \in ListFields :
                   /\ Len(output.value[f]) = longest(f)
                   /\ \A k \in 1..longest(f) :
                          LET val(i) == laps[i][f][k]
                          IN  output.value[f][k] =
                                  MedianOf({ i \in kept : Len(laps[i][f]) >= k }, val)

\* A slow lap is dropped and the laps kept have speed arrays of
\* different lengths: an even number of values at index 0, one at index 1.
C21_Witness ==
    /\ input.fn = "get_median_lap" /\ output.done /\ ~output.raised
    /\ Len(input.laps) = 3
    /\ input.laps[1].lap_finish_time = LapTimeMs + TenSeconds + 1
    /\ input.laps[2].lap_finish_time = LapTimeMs
    /\ input.laps[3].lap_finish_time = LapTimeMs + 2
    /\ input.laps[2].data_speed = <<4>>
    /\ input.laps[3].data_speed = <<1, 7>>
    /\ output.value.data_speed = <<5, 14>>
    /\ output.value.lap_finish_time = 2 * LapTimeMs + 2

\* C22, as stated: get_median_lap raises only when no lap is left after the
\* ten-second filter, and for an empty list of laps it returns an empty
\* result without raising.
C22_RaisesOnlyOnEmptyFilter ==
    (input.fn = "get_median_lap" /\ output.done) =>
        LET laps == input.laps
            kept == { i \in 1..Len(laps) :
                        \A j \in 1..Len(laps) :
                            laps[i].lap_finish_time - laps[j].lap_finish_time <= TenSeconds }
        IN  /\ output.raised => kept = {}
            /\ laps = <<>> => (~output.raised /\ output.value = InHalves(Lap0))

\* ---- gt7helper.py: last, reference and median lap --------------------------

\* get_last_reference_median_lap.  A Lap object is true in a condition; None
\* is not.
GetLastReferenceMedianLap(laps, reference_lap_selected) ==
    LET last_lap == IF Len(laps) > 0 THEN laps[1] ELSE None
        best == IF Len(laps) >= 2 /\ reference_lap_selected = None
                THEN GetBestLap(laps) ELSE None
        median == IF Len(laps) >= 3 THEN GetMedianLap(laps)
                  ELSE [done |-> TRUE, raised |-> FALSE, value |-> None]
        reference_lap == IF reference_lap_selected # None THEN reference_lap_selected ELSE best
    IN  IF median.raised THEN [done |-> TRUE, raised |-> TRUE, value |-> None]
        ELSE [done |-> TRUE, raised |-> FALSE,
              value |-> [last_lap |-> last_lap, reference_lap |-> reference_lap,
                         median_lap |-> median.value]]

\* Laps with a speed sample each, and a lap faster than all of them that the
\* user may have selected as the reference.
ReferenceLaps == { l \in HelperLaps : l.data_speed = <<4>> }
SelectedLap == [Lap0 EXCEPT !.lap_finish_time = LapTimeMs - 10, !.data_speed = <<GoodSpeed>>]

ReferenceInputs ==
    { [fn |-> "get_last_reference_median_lap", laps |-> l, selected |-> sel] :
        l \in SeqsUpTo(ReferenceLaps, MaxHelperLaps),
        sel \in {None, SelectedLap} \cup ReferenceLaps }

InitReference ==
    /\ Constructed("new")
    /\ input \in ReferenceInputs
    /\ output = NoOutput

\* get_last_reference_median_lap(laps, reference_lap_selected) is called and
\* returns or raises.
CallGetLastReferenceMedianLap ==
    /\ input.fn = "get_last_reference_median_lap" /\ ~output.done
    /\ output' = GetLastReferenceMedianLap(input.laps, input.selected)
    /\ UNCHANGED <<input, helperFrame>>

NextReference == CallGetLastReferenceMedianLap

SpecReference == InitReference /\ [][NextReference]_vars

\* C23: get_last_reference_median_lap returns laps[0] as the last lap of a
\* list with laps in it and none for an empty list; as the reference the
\* selected lap when one is given, else a lap of the list with the smallest
\* finish time when the list has two laps or more, else none; and a median
\* lap exactly when the list has three laps or more.
C23_LastReferenceMedian ==
    (input.fn = "get_last_reference_median_lap" /\ output.done) =>
        LET laps == input.laps
            r == output.value
        IN  /\ ~output.raised
            /\ r.last_lap = (IF laps # <<>> THEN laps[1] ELSE None)
            /\ input.selected # None => r.reference_lap = input.selected
            /\ (input.selected = None /\ Len(laps) >= 2) =>
                   /\ \E i \in 1..Len(laps) : r.reference_lap = laps[i]
                   /\ \A i \in 1..Len(laps) :
                          r.reference_lap.lap_finish_time <= laps[i].lap_finish_time
            /\ (input.selected = None /\ Len(laps) < 2) => r.reference_lap = None
            /\ (r.median_lap # None) <=> (Len(laps) >= 3)

\* Three laps, the fastest of them not the first, and no lap selected.
C23_Witness ==
    /\ input.fn = "get_last_reference_median_lap" /\ output.done
    /\ input.selected = None
    /\ Len(input.laps) = 3
    /\ input.laps[1].lap_finish_time > input.laps[3].lap_finish_time
    /\ output.value.last_lap = input.laps[1]
    /\ output.value.reference_lap = input.laps[3]
    /\ output.value.median_lap # None

\* ---- gt7helper.py: fuel -----------------------------------------------------

\* Python's numbers as exact fractions n / d in lowest terms with d > 0.
RECURSIVE Gcd(_, _)
Gcd(a, b) == IF b = 0 THEN a ELSE Gcd(b, a % b)

Rat(n, d) ==
    LET g == Gcd(Abs(n), Abs(d))
        sign == IF d < 0 THEN -1 ELSE 1
    IN  [n |-> sign * (n \div g), d |-> sign * (d \div g)]

Int2Rat(i) == [n |-> i, d |-> 1]
\* Sums and differences are taken over the least common denominator, which
\* keeps the numbers small.
RatAdd(x, y) ==
    LET g == Gcd(x.d, y.d)
    IN  Rat(x.n * (y.d \div g) + y.n * (x.d \div g), (x.d \div g) * y.d)
RatSub(x, y) == RatAdd(x, [n |-> 0 - y.n, d |-> y.d])
RatMul(x, y) == Rat(x.n * y.n, x.d * y.d)
RatLeq(x, y) == RatSub(y, x).n >= 0

CalculateRemainingFuel_OfStartLevel(fuel_start_lap, fuel_end_lap, lap_time) ==
    IF fuel_start_lap = fuel_end_lap
    THEN [fuel_consumed_per_lap |-> Int2Rat(0), laps_remaining |-> Int2Rat(-1),
          time_remaining |-> Int2Rat(-1)]
    ELSE [fuel_consumed_per_lap |-> Int2Rat(fuel_start_lap - fuel_end_lap),
          laps_remaining |-> Rat(fuel_start_lap, fuel_start_lap - fuel_end_lap),
          time_remaining |-> Rat(fuel_start_lap * lap_time, fuel_start_lap - fuel_end_lap)]

\* calculate_remaining_fuel
CalculateRemainingFuel(fuel_start_lap, fuel_end_lap, lap_time) ==
    IF fuel_start_lap = fuel_end_lap
    THEN [fuel_consumed_per_lap |-> Int2Rat(0), laps_remaining |-> Int2Rat(-1),
          time_remaining |-> Int2Rat(-1)]
    ELSE LET fuel_consumed_per_lap == fuel_start_lap - fuel_end_lap
             laps_remaining == Rat(fuel_end_lap, fuel_consumed_per_lap)
             time_remaining == RatMul(laps_remaining, Int2Rat(lap_time))
         IN  [fuel_consumed_per_lap |-> Int2Rat(fuel_consumed_per_lap),
              laps_remaining |-> laps_remaining,
              time_remaining |-> time_remaining]

\* Fuel levels in percent of the tank and lap times in ms.
FuelLevels == {0, 5, 20, 50, 80, 100}
FuelLapTimes == {100, LapTimeMs, 10000}

FuelInputs ==
    { [fn |-> "calculate_remaining_fuel", fuel_start_lap |-> a, fuel_end_lap |-> b,
       lap_time |-> t] : a \in FuelLevels, b \in FuelLevels, t \in FuelLapTimes }

InitFuel ==
    /\ Constructed("new")
    /\ input \in FuelInputs
    /\ output = NoOutput

\* calculate_remaining_fuel(fuel_start_lap, fuel_end_lap, lap_time) is called
\* and returns.
CallCalculateRemainingFuel ==
    /\ input.fn = "calculate_remaining_fuel" /\ ~output.done
    /\ output' = [done |-> TRUE, raised |-> FALSE,
                  value |-> CalculateRemainingFuel(input.fuel_start_lap, input.fuel_end_lap,
                                                   input.lap_time)]
    /\ UNCHANGED <<input, helperFrame>>

NextFuel == CallCalculateRemainingFuel

SpecFuel == InitFuel /\ [][NextFuel]_vars

\* The fraction x is the quotient a / b.
IsQuotient(x, a, b) == x.d # 0 /\ x.n * b = a * x.d

\* C24: calculate_remaining_fuel(start, end, lap_time) returns
\* (start - end, end / (start - end), end / (start - end) * lap_time) when
\* start differs from end, (20, 4, 40000) for (100, 80, 10000), and
\* (0, -1, -1) when start equals end.
C24_RemainingFuel ==
    (input.fn = "calculate_remaining_fuel" /\ output.done) =>
        LET a == input.fuel_start_lap
            b == input.fuel_end_lap
            r == output.value
        IN  /\ a # b =>
                /\ IsQuotient(r.fuel_consumed_per_lap, a - b, 1)
                /\ IsQuotient(r.laps_remaining, b, a - b)
                /\ IsQuotient(r.time_remaining, b * input.lap_time, a - b)
            /\ a = b => r = [fuel_consumed_per_lap |-> Int2Rat(0),
                             laps_remaining |-> Int2Rat(-1),
                             time_remaining |-> Int2Rat(-1)]
            /\ (a = 100 /\ b = 80 /\ input.lap_time = 10000) =>
                   r = [fuel_consumed_per_lap |-> Int2Rat(20),
                        laps_remaining |-> Int2Rat(4),
                        time_remaining |-> Int2Rat(40000)]

\* The call of the example has returned.
C24_Witness ==
    /\ input.fn = "calculate_remaining_fuel" /\ output.done
    /\ input.fuel_start_lap = 100 /\ input.fuel_end_lap = 80 /\ input.lap_time = 10000
    /\ output.value.laps_remaining = Int2Rat(4)

ConsumptionPercentage_Rising(i) == Rat(100 + i * FuelConsumptionPerLevelChange, 100)

\* consumption_percentage and power_percentage of mixture setting i.
ConsumptionPercentage(i) == Rat(100 - i * FuelConsumptionPerLevelChange, 100)
PowerPercentage(i) == Rat(100 - i * PowerPerLevelChange, 100)

\* One turn of the while loop of
\* get_fuel_on_consumption_by_relative_fuel_levels: the FuelMap of setting i.
RelativeFuelMap(lap, remaining, i) ==
    LET power_percentage == PowerPercentage(i)
        consumption_percentage == ConsumptionPercentage(i)
        saved == RatSub(Int2Rat(1), consumption_percentage)
        lap_time_diff == RatMul(Int2Rat(lap.lap_finish_time),
                                RatSub(Int2Rat(1), power_percentage))
    IN  [ mixture_setting |-> i,
          power_percentage |-> power_percentage,
          consumption_percentage |-> consumption_percentage,
          fuel_consumed_per_lap |-> RatMul(remaining.fuel_consumed_per_lap,
                                           consumption_percentage),
          laps_remaining_on_current_fuel |->
              RatAdd(remaining.laps_remaining, RatMul(remaining.laps_remaining, saved)),
          time_remaining_on_current_fuel |->
              RatAdd(remaining.time_remaining, RatMul(remaining.time_remaining, saved)),
          lap_time_diff |-> lap_time_diff,
          lap_time_expected |-> RatAdd(Int2Rat(lap.lap_finish_time), lap_time_diff) ]

\* The while loop from setting i on.
RECURSIVE RelativeFuelMapsFrom(_, _, _)
RelativeFuelMapsFrom(lap, remaining, i) ==
    IF i <= LastMixtureSetting
    THEN <<RelativeFuelMap(lap, remaining, i)>> \o RelativeFuelMapsFrom(lap, remaining, i + 1)
    ELSE <<>>

\* get_fuel_on_consumption_by_relative_fuel_levels
GetFuelOnConsumptionByRelativeFuelLevels(lap) ==
    RelativeFuelMapsFrom(lap,
                         CalculateRemainingFuel(lap.fuel_at_start, lap.fuel_at_end,
                                                lap.lap_finish_time),
                         FirstMixtureSetting)

FuelMapInputs ==
    { [fn |-> "get_fuel_on_consumption_by_relative_fuel_levels",
       lap |-> [Lap0 EXCEPT !.fuel_at_start = a, !.fuel_at_end = b, !.lap_finish_time = t]] :
        a \in FuelLevels, b \in FuelLevels, t \in FuelLapTimes }

InitFuelMap ==
    /\ Constructed("new")
    /\ input \in FuelMapInputs
    /\ output = NoOutput

\* get_fuel_on_consumption_by_relative_fuel_levels(lap) is called and returns.
CallGetFuelOnConsumption ==
    /\ input.fn = "get_fuel_on_consumption_by_relative_fuel_levels" /\ ~output.done
    /\ output' = [done |-> TRUE, raised |-> FALSE,
                  value |-> GetFuelOnConsumptionByRelativeFuelLevels(input.lap)]
    /\ UNCHANGED <<input, helperFrame>>

NextFuelMap == CallGetFuelOnConsumption

SpecFuelMap == InitFuelMap /\ [][NextFuelMap]_vars

\* C25: the function returns 11 projections, for the mixture settings -5 to
\* 5 in ascending order; setting i has consumption (100 - 8 i) % and power
\* (100 - 4 i) %, its fuel per lap is the lap's consumption times the
\* consumption percentage, and setting 0 has the lap's own consumption, laps
\* remaining, time remaining and lap time.
C25_ElevenFuelMaps ==
    (input.fn = "get_fuel_on_consumption_by_relative_fuel_levels" /\ output.done) =>
        LET a == input.lap.fuel_at_start
            b == input.lap.fuel_at_end
            t == input.lap.lap_finish_time
            maps == output.value
        IN  /\ Len(maps) = 11
            /\ \A k \in 1..Len(maps) :
                   LET i == k - 6
                       m == maps[k]
                   IN  /\ m.mixture_setting = i
                       /\ IsQuotient(m.consumption_percentage, 100 - 8 * i, 100)
                       /\ IsQuotient(m.power_percentage, 100 - 4 * i, 100)
                       /\ IsQuotient(m.fuel_consumed_per_lap, (a - b) * (100 - 8 * i), 100)
            /\ Len(maps) >= 6 =>
                   LET m == maps[6]
                   IN  /\ IsQuotient(m.fuel_consumed_per_lap, a - b, 1)
                       /\ IsQuotient(m.lap_time_expected, t, 1)
                       /\ a # b => /\ IsQuotient(m.laps_remaining_on_current_fuel, b, a - b)
                                   /\ IsQuotient(m.time_remaining_on_current_fuel, b * t, a - b)
                       /\ a = b => /\ m.laps_remaining_on_current_fuel = Int2Rat(-1)
                                   /\ m.time_remaining_on_current_fuel = Int2Rat(-1)

\* The lap of the test (100 to 50 in 1000 ms and the like): the leanest
\* setting uses 60 % of the lap's fuel.
C25_Witness ==
    /\ input.fn = "get_fuel_on_consumption_by_relative_fuel_levels" /\ output.done
    /\ input.lap.fuel_at_start = 100 /\ input.lap.fuel_at_end = 50
    /\ Len(output.value) = 11
    /\ output.value[11].fuel_consumed_per_lap = Int2Rat(30)
    /\ output.value[1].fuel_consumed_per_lap = Int2Rat(70)

\* ---- gt7lap.py: speed peaks and valleys -------------------------------------

\* x[j] of a Python list x, j counted from 0.
At(x, j) == x[j + 1]

\* The first index from i on, below i_max, at which x no longer equals v.
RECURSIVE PlateauEnd(_, _, _, _)
PlateauEnd(x, v, i, i_max) ==
    IF i < i_max /\ At(x, i) = v THEN PlateauEnd(x, v, i + 1, i_max) ELSE i

Midpoint_LeftEdge(left_edge, right_edge) == left_edge

\* The sample reported for a flat top.
Midpoint(left_edge, right_edge) == (left_edge + right_edge) \div 2

\* scipy.signal.find_peaks, its search for local maxima from index i on: a
\* sample, or a run of equal samples, with a smaller sample right before and
\* right after it; the first and the last sample are never one.
RECURSIVE LocalMaxima(_, _)
LocalMaxima(x, i) ==
    LET i_max == Len(x) - 1
    IN  IF i >= i_max THEN <<>>
        ELSE IF At(x, i - 1) < At(x, i)
             THEN LET i_ahead == PlateauEnd(x, At(x, i), i + 1, i_max)
                  IN  IF At(x, i_ahead) < At(x, i)
                      THEN <<Midpoint(i, i_ahead - 1)>> \o LocalMaxima(x, i_ahead + 1)
                      ELSE LocalMaxima(x, i + 1)
             ELSE LocalMaxima(x, i + 1)

\* The lowest sample between the peak and the nearest higher sample (or the
\* end of the signal) in direction step, walking from index i.
RECURSIVE BaseLevel(_, _, _, _, _)
BaseLevel(x, peak, i, step, lowest) ==
    IF 0 <= i /\ i <= Len(x) - 1 /\ At(x, i) <= At(x, peak)
    THEN BaseLevel(x, peak, i + step, step, IF At(x, i) < lowest THEN At(x, i) ELSE lowest)
    ELSE lowest

\* The index of the base: the first index at which that lowest level is met,
\* walking away from the peak (the walk ends there for the width).
RECURSIVE BaseIndex(_, _, _, _)
BaseIndex(x, level, i, step) ==
    IF At(x, i) = level THEN i ELSE BaseIndex(x, level, i + step, step)

\* The first index from i on in direction step, not beyond the base, whose
\* sample is not above height.
RECURSIVE Crossing(_, _, _, _, _)
Crossing(x, height, i, step, base) ==
    IF i # base /\ RatLeq(height, Int2Rat(At(x, i))) /\ height # Int2Rat(At(x, i))
    THEN Crossing(x, height, i + step, step, base)
    ELSE i

\* The width of a peak as find_peaks measures it: at half its prominence,
\* between the points where the signal, interpolated linearly, crosses that
\* height.
PeakWidth(x, peak) ==
    LET top == At(x, peak)
        left_min == BaseLevel(x, peak, peak, -1, top)
        right_min == BaseLevel(x, peak, peak, 1, top)
        left_base == BaseIndex(x, left_min, peak, -1)
        right_base == BaseIndex(x, right_min, peak, 1)
        prominence == top - (IF left_min > right_min THEN left_min ELSE right_min)
        height == Rat(2 * top - prominence, 2)
        l == Crossing(x, height, peak, -1, left_base)
        r == Crossing(x, height, peak, 1, right_base)
        below(i) == RatLeq(Int2Rat(At(x, i)), height) /\ height # Int2Rat(At(x, i))
        left_ip == IF below(l)
                   THEN RatAdd(Int2Rat(l),
                               Rat(height.n - At(x, l) * height.d,
                                   height.d * (At(x, l + 1) - At(x, l))))
                   ELSE Int2Rat(l)
        right_ip == IF below(r)
                    THEN RatSub(Int2Rat(r),
                                Rat(height.n - At(x, r) * height.d,
                                    height.d * (At(x, r - 1) - At(x, r))))
                    ELSE Int2Rat(r)
    IN  RatSub(right_ip, left_ip)

\* find_peaks(x, width=width): the local maxima that are wide enough.
FindPeaks(x, width) ==
    SelectSeq(LocalMaxima(x, 1), LAMBDA peak : RatLeq(Int2Rat(width), PeakWidth(x, peak)))

\* Lap.find_speed_peaks_and_valleys
FindSpeedPeaksAndValleys(lap, width) ==
    LET inv_data_speed == [i \in 1..Len(lap.data_speed) |-> lap.data_speed[i] * (-1)]
    IN  [peaks |-> FindPeaks(lap.data_speed, width),
         valleys |-> FindPeaks(inv_data_speed, width)]

\* The speeds of the test, doubled to be whole numbers.
TestSpeeds == <<0, 4, 6, 10, 10, 9, 6, 12, 14, 16, 14, 16, 6, 4>>

SpeedSeqs == SeqsUpTo(0..MaxSpeed, MaxSamples) \cup {TestSpeeds}

PeakInputs ==
    { [fn |-> "find_speed_peaks_and_valleys", lap |-> [Lap0 EXCEPT !.data_speed = sp],
       width |-> w] : sp \in SpeedSeqs, w \in 1..2 }

InitPeaks ==
    /\ Constructed("new")
    /\ input \in PeakInputs
    /\ output = NoOutput

\* lap.find_speed_peaks_and_valleys(width) is called and returns.
CallFindSpeedPeaksAndValleys ==
    /\ input.fn = "find_speed_peaks_and_valleys" /\ ~output.done
    /\ output' = [done |-> TRUE, raised |-> FALSE,
                  value |-> FindSpeedPeaksAndValleys(input.lap, input.width)]
    /\ UNCHANGED <<input, helperFrame>>

NextPeaks == CallFindSpeedPeaksAndValleys

SpecPeaks == InitPeaks /\ [][NextPeaks]_vars

\* Index p (from 0) is where a local maximum of x is reported: p is the
\* middle, rounded down, of a run of equal samples that has a smaller sample
\* right before it and right after it.
IsLocalMaximum(x, p) ==
    \E l \in 1..p, r \in p..(Len(x) - 2) :
        /\ \A j \in l..r : At(x, j) = At(x, p)
        /\ At(x, l - 1) < At(x, l)
        /\ At(x, r + 1) < At(x, r)
        /\ 2 * p \in {l + r, l + r - 1}

\* q holds, in increasing order, exactly the local maxima of x that are at
\* least width wide.
IsWidePeaksOf(q, x, width) ==
    /\ \A k \in 1..(Len(q) - 1) : q[k] < q[k + 1]
    /\ { q[k] : k \in 1..Len(q) } =
           { p \in 0..(Len(x) - 1) :
               IsLocalMaximum(x, p) /\ RatLeq(Int2Rat(width), PeakWidth(x, p)) }

Increment_PerMillisecond(speed) == Rat(speed * 10, 36 * 1000)

\* (float(speed) / 3.6 / 1000) * tick_time, tick_time being 16.668: the
\* metres driven in one tick at speed km/h.
Increment(speed) == Rat(speed * 10 * TickTimeMicroseconds, 36 * 1000 * 1000)

\* The for loop of get_x_axis_for_distance from index i (from 0) on, x_axis
\* being the list built so far.  An element of data_speed is None or
\* Some(speed).
RECURSIVE XAxisFrom(_, _, _)
XAxisFrom(data_speed, i, x_axis) ==
    IF i >= Len(data_speed) THEN x_axis
    ELSE IF At(data_speed, i) = None \/ At(data_speed, i) = Some(0)
         THEN XAxisFrom(data_speed, i + 1, Append(x_axis, At(x_axis, i - 1)))
         ELSE XAxisFrom(data_speed, i + 1,
                        Append(x_axis, RatAdd(At(x_axis, i - 1),
                                              Increment(At(data_speed, i).some))))

\* Lap.get_x_axis_for_distance
GetXAxisForDistance(data_speed) == XAxisFrom(data_speed, 1, <<Int2Rat(0)>>)

\* Speed samples: missing, standing, slow, fast and (never sent by the
\* console) negative.
SpeedSamples == {None, Some(0), Some(1), Some(GoodSpeed), Some(-1)}

DistanceInputs ==
    { [fn |-> "get_x_axis_for_distance", data_speed |-> sp] :
        sp \in SeqsUpTo(SpeedSamples, MaxSamples) }

InitDistance ==
    /\ Constructed("new")
    /\ input \in DistanceInputs
    /\ output = NoOutput

\* lap.get_x_axis_for_distance() is called and returns.
CallGetXAxisForDistance ==
    /\ input.fn = "get_x_axis_for_distance" /\ ~output.done
    /\ output' = [done |-> TRUE, raised |-> FALSE,
                  value |-> GetXAxisForDistance(input.data_speed)]
    /\ UNCHANGED <<input, helperFrame>>

NextDistance == CallGetXAxisForDistance

SpecDistance == InitDistance /\ [][NextDistance]_vars

\* C27: the distance axis starts at 0 and has a value for every speed sample;
\* the value at index i is the one at i - 1 exactly when speed[i] is zero or
\* missing, and otherwise it is the one at i - 1 plus speed[i] km/h driven
\* for 16.668 ms; with no negative speed it never decreases.
C27_DistanceAxis ==
    (input.fn = "get_x_axis_for_distance" /\ output.done) =>
        LET sp == input.data_speed
            x == output.value
            holds(i) == sp[i] = None \/ sp[i] = Some(0)
        IN  /\ Len(x) >= 1 /\ x[1] = Int2Rat(0)
            /\ \A i \in 2..Len(sp) :
                   /\ i <= Len(x)
                   /\ holds(i) <=> x[i] = x[i - 1]
                   /\ ~holds(i) =>
                          RatSub(x[i], x[i - 1]) = Rat(sp[i].some * 16668, 3600000)
            /\ (\A i \in 1..Len(sp) : sp[i] = None \/ sp[i].some >= 0) =>
                   \A i \in 2..Len(x) : RatLeq(x[i - 1], x[i])

\* A drive with a missing and a zero sample between moving ones.
C27_Witness ==
    /\ input.fn = "get_x_axis_for_distance" /\ output.done
    /\ input.data_speed = <<Some(0), Some(GoodSpeed), None, Some(0), Some(1)>>
    /\ output.value[2] = output.value[4]
    /\ output.value[5] # output.value[4]

\* ---- gt7lap.py: brake points ------------------------------------------------

RECURSIVE BrakeIndices_AnyPress(_, _)
BrakeIndices_AnyPress(braking, i) ==
    IF i >= Len(braking) THEN <<>>
    ELSE IF At(braking, i) > 0
         THEN <<i>> \o BrakeIndices_AnyPress(braking, i + 1)
         ELSE BrakeIndices_AnyPress(braking, i + 1)

\* The indices i >= 1 (from 0) with braking[i - 1] == 0 and braking[i] > 0,
\* in increasing order, from index i on.
RECURSIVE BrakeIndices(_, _)
BrakeIndices(braking, i) ==
    IF i >= Len(braking) THEN <<>>
    ELSE IF At(braking, i - 1) = 0 /\ At(braking, i) > 0
         THEN <<i>> \o BrakeIndices(braking, i + 1)
         ELSE BrakeIndices(braking, i + 1)

\* What get_brake_points gives: two lists, or an exception.
Points(x, y) == [done |-> TRUE, raised |-> FALSE, value |-> [x |-> x, y |-> y]]
NoPoints == [done |-> TRUE, raised |-> TRUE, value |-> None]

\* Lap.get_brake_points, the NumPy path: the arrays are lists of numbers, so
\* np.array(..., dtype=float) does not raise; pos_x[brake_indices] raises
\* IndexError, which the except clause does not catch, when an index is not
\* one of pos_x.
GetBrakePoints(lap) ==
    IF Len(lap.data_braking) < 2 THEN Points(<<>>, <<>>)
    ELSE LET brake_indices == BrakeIndices(lap.data_braking, 1)
             within(pos) == \A k \in 1..Len(brake_indices) : brake_indices[k] < Len(pos)
         IN  IF within(lap.data_position_x) /\ within(lap.data_position_z)
             THEN Points([k \in 1..Len(brake_indices) |-> At(lap.data_position_x, brake_indices[k])],
                         [k \in 1..Len(brake_indices) |-> At(lap.data_position_z, brake_indices[k])])
             ELSE NoPoints

\* The for loop of _get_brake_points_fallback from index i on: pos_x[i] or
\* pos_z[i] raises IndexError when the list is too short.
RECURSIVE FallbackFrom(_, _, _, _)
FallbackFrom(lap, i, x, y) ==
    IF i >= Len(lap.data_braking) THEN Points(x, y)
    ELSE IF At(lap.data_braking, i - 1) = 0 /\ At(lap.data_braking, i) > 0
         THEN IF i < Len(lap.data_position_x) /\ i < Len(lap.data_position_z)
              THEN FallbackFrom(lap, i + 1, Append(x, At(lap.data_position_x, i)),
                                Append(y, At(lap.data_position_z, i)))
              ELSE NoPoints
         ELSE FallbackFrom(lap, i + 1, x, y)

\* Lap._get_brake_points_fallback
GetBrakePointsFallback(lap) ==
    IF Len(lap.data_braking) < 2 THEN Points(<<>>, <<>>)
    ELSE FallbackFrom(lap, 1, <<>>, <<>>)

\* The lap of the test, as a lap read from a file.
BrakeTestLap ==
    [StoredLap EXCEPT !.data_position_z = <<0, 1, 3, 4, 7, 8, 9>>,
                      !.data_position_x = <<0, 2, 5, 8, 9, 18, 19>>,
                      !.data_braking = <<0, 50, 40, 50, 0, 10, 0>>]

\* Laps as read from a file: a braking sample and a position for each tick.
RECURSIVE Positions(_, _)
Positions(first, n) == IF n = 0 THEN <<>> ELSE <<first>> \o Positions(first + 3, n - 1)

FileBrakeLaps ==
    { [StoredLap EXCEPT !.data_braking = b,
                        !.data_position_x = Positions(10, Len(b)),
                        !.data_position_z = Positions(20, Len(b))] :
        b \in SeqsUpTo({0, 50, MaxPedal}, MaxSamples) }

\* Laps as the receiver records them: _process_lap_data has appended the
\* braking sample of one tick and raised before it appended a position.
RecordedBrakeLaps ==
    { FoldHead(Lap0, Session0, [Sample(1, 1, LapTimeMs, FALSE, GoodSpeed) EXCEPT !.brake = b]).lap :
        b \in {0, 50} }

BrakeInputs ==
    { [fn |-> "get_brake_points", lap |-> lap] :
        lap \in FileBrakeLaps \cup RecordedBrakeLaps \cup {BrakeTestLap} }

InitBrake ==
    /\ Constructed("new")
    /\ input \in BrakeInputs
    /\ output = NoOutput

\* RaceTab.update_brake_points: lap.get_brake_points() is called and returns
\* or raises.
CallGetBrakePoints ==
    /\ input.fn = "get_brake_points" /\ ~output.done
    /\ output' = GetBrakePoints(input.lap)
    /\ UNCHANGED <<input, helperFrame>>

NextBrake == CallGetBrakePoints

SpecBrake == InitBrake /\ [][NextBrake]_vars

\* C28: get_brake_points returns the (x, z) position at every
\* index i >= 1 with braking[i - 1] == 0 and braking[i] > 0, in index order,
\* two empty lists for fewer than 2 braking samples, and the fallback
\* returns the same.
C28_BrakePoints ==
    (input.fn = "get_brake_points" /\ output.done) =>
        LET lap == input.lap
            b == lap.data_braking
            at == { i \in 2..Len(b) : b[i - 1] = 0 /\ b[i] > 0 }
            nth(k) == CHOOSE i \in at : Cardinality({ j \in at : j < i }) = k - 1
        IN  /\ ~output.raised
            /\ Len(output.value.x) = Cardinality(at)
            /\ Len(output.value.y) = Cardinality(at)
            /\ \A k \in 1..Cardinality(at) :
                   /\ output.value.x[k] = lap.data_position_x[nth(k)]
                   /\ output.value.y[k] = lap.data_position_z[nth(k)]
            /\ Len(b) < 2 => (output.value.x = <<>> /\ output.value.y = <<>>)
            /\ GetBrakePointsFallback(lap) = output

\* The lap of the test gave its two brake points.
C28_Witness ==
    /\ input.fn = "get_brake_points" /\ output.done
    /\ input.lap = BrakeTestLap
    /\ output.value = [x |-> <<2, 18>>, y |-> <<1, 8>>]

\* ---------------------------------------------------------------------
\* gt7helper.get_n_fastest_laps_within_percent_threshold_ignoring_replays

\* The comprehension's test: a lap is kept unless its speed array is empty
\* or it is a replay.
Qualifies_ReplayOnly(lap) == ~lap.is_replay

Qualifies(lap) == ~(Len(lap.data_speed) = 0 \/ lap.is_replay)

\* list.sort(key=lambda lap: lap.lap_finish_time): a stable ascending sort.
RECURSIVE InsertByFinishTime(_, _)
InsertByFinishTime(sorted, lap) ==
    IF sorted = <<>> THEN <<lap>>
    ELSE IF Head(sorted).lap_finish_time <= lap.lap_finish_time
         THEN <<Head(sorted)>> \o InsertByFinishTime(Tail(sorted), lap)
         ELSE <<lap>> \o sorted

RECURSIVE SortByFinishTime(_)
SortByFinishTime(laps) ==
    IF laps = <<>> THEN <<>>
    ELSE InsertByFinishTime(SortByFinishTime(SubSeq(laps, 1, Len(laps) - 1)),
                            laps[Len(laps)])

\* lap_finish_time <= fastest_lap.lap_finish_time * (1 + percent_threshold)
WithinThreshold(lap, fastest_lap, percent_threshold) ==
    RatLeq(Int2Rat(lap.lap_finish_time),
           RatMul(Int2Rat(fastest_lap.lap_finish_time),
                  RatAdd(Int2Rat(1), percent_threshold)))

\* threshold_laps[:number_of_laps] for number_of_laps >= 0
FirstN(laps, number_of_laps) ==
    SubSeq(laps, 1, IF number_of_laps < Len(laps) THEN number_of_laps ELSE Len(laps))

\* The call's result, with the caller's list as it is after the call: the
\* comprehension builds a new list, and only the new list is sorted.
GetNFastestLaps(laps, number_of_laps, percent_threshold) ==
    LET filtered_laps == SelectSeq(laps, Qualifies)
    IN  IF Len(filtered_laps) = 0
        THEN [done |-> TRUE, raised |-> FALSE, value |-> <<>>, laps |-> laps]
        ELSE LET sorted_laps == SortByFinishTime(filtered_laps)
                 fastest_lap == sorted_laps[1]
                 threshold_laps ==
                     SelectSeq(sorted_laps,
                               LAMBDA lap : WithinThreshold(lap, fastest_lap, percent_threshold))
             IN  [done |-> TRUE, raised |-> FALSE,
                  value |-> FirstN(threshold_laps, number_of_laps),
                  laps |-> laps]

\* Laps as the tests of the function build them: a finish time, a replay
\* flag and a speed array that is empty or not. With the eighth as threshold
\* the middle time lies exactly on the limit of the first and the last
\* time just beyond it.
FastestLapTimes == {LapTimeMs, LapTimeMs + LapTimeMs \div 8, LapTimeMs + LapTimeMs \div 8 + 1}

FastestLaps ==
    { [Lap0 EXCEPT !.lap_finish_time = t, !.is_replay = kind[1], !.data_speed = kind[2]] :
        t \in FastestLapTimes,
        kind \in {<<FALSE, <<4>>>>, <<TRUE, <<4>>>>, <<FALSE, <<>>>>} }

PercentThresholds == {Int2Rat(0), Rat(1, 8), Rat(15, 100)}

FastestInputs ==
    { [fn |-> "get_n_fastest_laps", laps |-> l, number_of_laps |-> n, percent_threshold |-> th] :
        l \in SeqsUpTo(FastestLaps, MaxHelperLaps),
        n \in 0..MaxHelperLaps,
        th \in PercentThresholds }

InitFastest ==
    /\ Constructed("new")
    /\ input \in FastestInputs
    /\ output = NoOutput

\* get_variance_for_fastest_laps and the tests: the function is called and
\* returns.
CallGetNFastestLaps ==
    /\ input.fn = "get_n_fastest_laps" /\ ~output.done
    /\ output' = GetNFastestLaps(input.laps, input.number_of_laps, input.percent_threshold)
    /\ UNCHANGED <<input, helperFrame>>

NextFastest == CallGetNFastestLaps

SpecFastest == InitFastest /\ [][NextFastest]_vars

\* A lap that is neither a replay nor without speed samples, and the
\* smallest finish time among such laps.
Qualified(lap) == ~lap.is_replay /\ lap.data_speed # <<>>

FastestTime(laps) ==
    CHOOSE t \in { laps[i].lap_finish_time : i \in { j \in 1..Len(laps) : Qualified(laps[j]) } } :
        \A i \in 1..Len(laps) : Qualified(laps[i]) => t <= laps[i].lap_finish_time

C30_OpenLapOnlyUnderLock ==
    [][ /\ (lock # "none" /\ current_lap' # current_lap) => stack'[lock] # stack[lock]
        /\ (lock \notin {"none", "rx"} /\ AtRecvfrom) => rpc' # "finish" ]_vars

\* ---------------------------------------------------------------------
\* GT7Session.delete_lap and load_laps, statement by statement, beside the
\* receiver.  GT7Session has no lock: each of the two reads self.laps, builds
\* a new list and assigns it, and the receiver's self.laps.append(lap) can
\* come between the read and the assignment.

\* A lap of a loaded file; its number is one no recorded lap has.
FileLap == [StoredLap EXCEPT !.number = MaxLapIndex]

\* delete_lap, the right-hand side: the list comprehension over self.laps.
DeleteLapBuilds(lap_number) ==
    /\ pending = NoPending
    /\ pending' = [op |-> "delete", n |-> lap_number, before |-> session,
                   laps |-> DeleteLap(session, lap_number).laps]
    /\ UNCHANGED <<flags, heartbeat, runLocals, runHistory, stopping, callers, helperCall,
                   current_lap, last_data, last_time_data_received, was_connected, connections,
                   lock, session, rpc, rxLocals, stack, now, history, added, cb_calls>>

\* delete_lap, the assignment: self.laps = <the new list>.
DeleteLapAssigns ==
    /\ pending.op = "delete"
    /\ session' = [session EXCEPT !.laps = pending.laps]
    /\ last_call' = [NoCall EXCEPT !.op = "delete", !.before = pending.before, !.n = pending.n]
    /\ pending' = NoPending
    /\ UNCHANGED <<flags, heartbeat, runLocals, runHistory, stopping, registry, helperCall,
                   current_lap, last_data, last_time_data_received, was_connected, connections,
                   lock, rpc, rxLocals, stack, now, history, added, cb_calls>>

\* load_laps, the right-hand side: self.laps + laps or laps + self.laps.
LoadLapsBuilds(laps, to_last, to_first) ==
    /\ pending = NoPending
    /\ to_last \/ to_first
    /\ Len(session.laps) < MaxCallerLaps
    /\ pending' = [op |-> "load", n |-> -1, before |-> session,
                   laps |-> LoadLaps(session, laps, to_last, to_first, FALSE).laps]
    /\ UNCHANGED <<flags, heartbeat, runLocals, runHistory, stopping, callers, helperCall,
                   current_lap, last_data, last_time_data_received, was_connected, connections,
                   lock, session, rpc, rxLocals, stack, now, history, added, cb_calls>>

\* load_laps, the assignment and the rest: max_speed is taken over the list
\* assigned (no lap has a max_speed attribute) and the listeners are called.
LoadLapsAssigns ==
    /\ pending.op = "load"
    /\ session' = LoadLaps([session EXCEPT !.laps = pending.laps], <<>>, FALSE, FALSE, FALSE)
    /\ LET r == Notify(on_load_laps_callbacks, 1)
       IN  last_call' = [NoCall EXCEPT !.op = "load", !.before = pending.before,
                                       !.listeners = on_load_laps_callbacks,
                                       !.called = r.called, !.escaped = r.escaped]
    /\ pending' = NoPending
    /\ UNCHANGED <<flags, heartbeat, runLocals, runHistory, stopping, registry, helperCall,
                   current_lap, last_data, last_time_data_received, was_connected, connections,
                   lock, rpc, rxLocals, stack, now, history, added, cb_calls>>

\* The receiver, and a caller thread that loads a file lap and deletes laps
\* with the file lap's number.
NextEdit ==
    \/ RxStep
    \/ FinishStep("rx")
    \/ DeleteLapBuilds(FileLap.number)
    \/ DeleteLapAssigns
    \/ \E to_last \in BOOLEAN : LoadLapsBuilds(<<FileLap>>, to_last, ~to_last)
    \/ LoadLapsAssigns

SpecEdit == Init /\ [][NextEdit]_vars

\* C31, as stated: a lap the receiver added through Session.add_lap is in
\* the lap list once a delete_lap for another number or a load_laps that ran
\* beside it has finished.
C31_AddedLapStays ==
    pending = NoPending =>
        \A i \in 1..Len(added) : \E j \in 1..Len(session.laps) : session.laps[j] = added[i]

\* ---------------------------------------------------------------------
\* The receiver's heartbeats

\* After construction and start(), with the heartbeats recorded.
InitBeat ==
    /\ Built("bind")
    /\ heartbeat = NoHeartbeat
    /\ registrations = NotRecorded
    /\ connections = NotRecorded
    /\ input = NoInput
    /\ output = NoOutput

\* The receiver with receive timeouts and heartbeats that cannot be sent.
NextBeat ==
    \/ RxStep
    \/ FinishStep("rx")
    \/ \E kind \in {"connection", "socket"} : SocketErrorInLoop(kind)

SpecBeat == InitBeat /\ [][NextBeat]_vars

\* A step in which recvfrom raised OSError or TimeoutError.
TimedOut ==
    /\ AtRecvfrom
    /\ received' = received
    /\ heartbeat'.event \in {"timeout", "send_failed"}

\* What C32 says of such a step: one heartbeat, both counters 0, still in the
\* loop on the same socket, no backoff, the open lap as it was.
StaysListening ==
    /\ heartbeat'.sent = 1
    /\ heartbeat'.on_socket
    /\ package_nr' = 0
    /\ package_id' = 0
    /\ rpc' = "recv"
    /\ retry_delay' = 0
    /\ bind_failures' = bind_failures
    /\ current_lap' = current_lap
    /\ session' = session

\* C32, as stated: whenever the blocking receive times out, the receiver
\* sends exactly one heartbeat, resets its packet counter and its package id
\* to 0 and stays in the listening loop on the same socket.
C32_TimeoutKeepsListening ==
    [][TimedOut => StaysListening]_vars

\* C32, amended: it does so when the heartbeat can be sent; when sendto
\* raises OSError no heartbeat is sent, the counters are reset and the
\* receiver leaves the loop for run(), which binds a new socket or ends.
C32_TimeoutKeepsListeningIfSent ==
    [][TimedOut =>
          IF heartbeat'.event = "timeout"
          THEN StaysListening
          ELSE /\ heartbeat'.sent = 0
               /\ package_nr' = 0
               /\ package_id' = 0
               /\ rpc' \in {"bind", "backoff", "ended"}
               /\ current_lap' = current_lap]_vars

\* A receive timed out while the open lap held a sample: the heartbeat was
\* sent and the lap is still there.
C32_Witness ==
    /\ heartbeat.event = "timeout"
    /\ heartbeat.sent = 1
    /\ received > 0
    /\ package_id = 0
    /\ current_lap # None /\ Len(current_lap.data_speed) > 0
    /\ rpc = "recv"

\* C34, as stated: whenever the receiver waits for a datagram on a socket,
\* it has sent a heartbeat on that socket.
C34_HeartbeatAfterBind ==
    (heartbeat # NotRecorded /\ rpc \in {"recv", "recvfrom"}) => heartbeat.on_socket

\* ---------------------------------------------------------------------
\* The packet counter of the listening loop near its limit

\* Paused samples of the time before the race: accepted, never folded.
PausedSample(id) == Sample(id, 0, -1, TRUE, GoodSpeed)

\* The receiver listening on its socket after HeartbeatEvery - 1 datagrams
\* since it bound: either all of them paused samples with package ids
\* 1, 2, ..., each accepted, or all of them datagrams that decoded to
\* nothing, each discarded.  The histories of the datagrams start here.
InitCount ==
    \E all_accepted \in BOOLEAN :
        LET n == HeartbeatEvery - 1
        IN  /\ shall_run = TRUE
            /\ shall_restart = FALSE
            /\ current_lap = Lap0
            /\ last_data = IF all_accepted THEN PausedSample(n) ELSE <<>>
            /\ last_time_data_received = IF all_accepted THEN 1 ELSE 0
            /\ was_connected = "no"
            /\ always_record_data = TRUE
            /\ lapfinish_callback = TRUE
            /\ lock = "none"
            /\ session = Session0
            /\ rpc = "recv"
            /\ previous_lap = -1
            /\ package_id = IF all_accepted THEN n ELSE 0
            /\ package_nr = n
            /\ stack = [t \in Threads |-> <<>>]
            /\ now = 1
            /\ received = 0
            /\ rx = [kind |-> IF all_accepted THEN "accept" ELSE "empty",
                     index |-> IF all_accepted THEN 0 ELSE -1,
                     over_loop |-> all_accepted, over_run |-> all_accepted]
            /\ hi_loop = IF all_accepted THEN n ELSE 0
            /\ hi_run = IF all_accepted THEN n ELSE 0
            /\ prev_index = IF all_accepted THEN 0 ELSE -1
            /\ accepted_at = IF all_accepted THEN 1 ELSE 0
            /\ added = <<>>
            /\ cb_calls = <<>>
            /\ connection_attempts = 0
            /\ retry_delay = 0
            /\ streak = 0
            /\ bind_failures = 0
            /\ socket_errors = 0
            /\ stop_pc = "idle"
            /\ stops = 0
            /\ on_add_lap_callbacks = <<>>
            /\ on_load_laps_callbacks = <<>>
            /\ last_call = NoCall
            /\ registrations = NotRecorded
            /\ connections = NotRecorded
            /\ pending = NoPending
            /\ heartbeat = [event |-> "datagram", sent |-> 0, on_socket |-> FALSE,
                            accepted |-> IF all_accepted THEN n ELSE 0]
            /\ input = NoInput
            /\ output = NoOutput

\* What the console sends next: samples with the package ids that follow,
\* paused or not, and datagrams that decode to nothing.
CountDatagrams ==
    { Sample(HeartbeatEvery - 1 + id, cur, LapTimeMs, paused, GoodSpeed) :
        id \in 1..MaxId, cur \in 0..1, paused \in BOOLEAN } \cup {EmptyDecode}

NextCount ==
    \/ EnterLoop
    \/ \E d \in CountDatagrams : RecvDatagram(d)
    \/ LogData
    \/ RecvTimeout
    \/ FinishStep("rx")

SpecCount == InitCount /\ [][NextCount]_vars

\* C33, as stated: the receiver never waits for the next datagram with 100
\* packets accepted since the last heartbeat or timeout, and the heartbeat
\* of the counter is sent when exactly 100 packets were accepted since.
C33_HeartbeatEvery100Accepted ==
    [][ /\ rpc' = "recv" => heartbeat'.accepted < HeartbeatEvery
        /\ (rpc = "log" /\ heartbeat'.sent = heartbeat.sent + 1)
               => heartbeat.accepted = HeartbeatEvery ]_vars

\* ---------------------------------------------------------------------
\* The tick counters of a lap

\* The pedal positions the samples of this specification carry.
Pedals == {0, 50, MaxPedal}

\* Samples of a race in progress with every combination of pedal positions.
PedalSamples ==
    { [Sample(id, cur, LapTimeMs, FALSE, GoodSpeed) EXCEPT !.throttle = th, !.brake = br] :
        id \in 1..MaxId, cur \in 0..1, th \in Pedals, br \in Pedals }

\* The samples folded directly: coasting, part brake, full throttle, full
\* brake, both pedals in part and both in full.
DirectSamples ==
    { [Sample(1, 1, LapTimeMs, FALSE, GoodSpeed) EXCEPT !.throttle = p[1], !.brake = p[2]] :
        p \in {<<0, 0>>, <<0, 50>>, <<MaxPedal, 0>>, <<0, MaxPedal>>, <<50, 50>>,
                <<MaxPedal, MaxPedal>>} }

\* _process_lap_data(d) called on the receiver before its thread is started,
\* the AttributeError it ends with caught by the caller: the statements
\* before the raise have changed the open lap and the session.
DirectFold(d) ==
    /\ rpc = "new"
    /\ Len(current_lap.data_speed) < MaxSamples
    /\ LET r == ProcessLapData(current_lap, session, d)
       IN  /\ current_lap' = r.lap
           /\ session' = r.session
    /\ UNCHANGED <<flags, beyondLoop, heartbeat, last_data, last_time_data_received, was_connected, connections,
                   lock, rpc, rxLocals, stack, now, history, added, cb_calls>>

\* The receiver constructed, its thread started or not.
InitPedals == InitAt("bind") \/ InitAt("new")

\* The receiver during a race with such samples, and folds called one after
\* the other on a receiver that is not running.
NextPedals ==
    \/ EnterLoop
    \/ \E d \in PedalSamples : RecvDatagram(d)
    \/ LogData
    \/ FinishStep("rx")
    \/ \E d \in DirectSamples : DirectFold(d)

SpecPedals == InitPedals /\ [][NextPedals]_vars

\* The ticks of a lap that satisfy a test on throttle and brake.
Ticks(lap, test(_, _)) ==
    Cardinality({ i \in 1..Len(lap.data_throttle) : test(lap.data_throttle[i], lap.data_braking[i]) })

\* The counters and the coasting array of a lap agree with the samples the
\* lap holds.
CountersAgree(lap) ==
    /\ Len(lap.data_braking) = Len(lap.data_throttle)
    /\ Len(lap.data_coasting) = Len(lap.data_throttle)
    /\ lap.full_throttle_ticks = Ticks(lap, LAMBDA th, br : th = 100)
    /\ lap.full_brake_ticks = Ticks(lap, LAMBDA th, br : br = 100)
    /\ lap.no_throttle_and_no_brake_ticks = Ticks(lap, LAMBDA th, br : th = 0 /\ br = 0)
    /\ lap.throttle_and_brake_ticks = Ticks(lap, LAMBDA th, br : th > 0 /\ br > 0)
    /\ \A i \in 1..Len(lap.data_coasting) :
           lap.data_coasting[i] = IF lap.data_throttle[i] = 0 /\ lap.data_braking[i] = 0
                                  THEN 1 ELSE 0

\* C35: in the open lap and in every lap of the session,
\* full_throttle_ticks, full_brake_ticks, no_throttle_and_no_brake_ticks and
\* throttle_and_brake_ticks are the numbers of folded samples with throttle
\* at 100, brake at 100, both at 0 and both above 0, and the coasting array
\* holds 1 exactly at the samples with both at 0.
C35_TickCounters ==
    /\ current_lap # None => CountersAgree(current_lap)
    /\ \A i \in 1..Len(session.laps) : CountersAgree(session.laps[i])

\* Five samples were folded into one lap: two while coasting, one with both
\* pedals in full, one with full throttle and one with both pedals in part.
C35_Witness ==
    /\ current_lap # None
    /\ Len(current_lap.data_coasting) = 5
    /\ current_lap.no_throttle_and_no_brake_ticks = 2
    /\ current_lap.full_brake_ticks = 1
    /\ current_lap.throttle_and_brake_ticks = 2
    /\ current_lap.full_throttle_ticks = 2
    /\ current_lap.data_coasting = <<1, 0, 0, 1, 0>>

\* ---------------------------------------------------------------------
\* The load listeners of a session

\* if callback in callbacks: callbacks.remove(callback)
RECURSIVE Remove(_, _)
Remove(callbacks, cb) ==
    IF callbacks = <<>> THEN callbacks
    ELSE IF Head(callbacks) = cb THEN Tail(callbacks)
    ELSE <<Head(callbacks)>> \o Remove(Tail(callbacks), cb)

\* GT7Session.remove_on_load_laps_callback
RemoveOnLoadLapsCallback(cb) ==
    /\ on_load_laps_callbacks' = Remove(on_load_laps_callbacks, cb)
    /\ registrations' = IF registrations = NotRecorded THEN registrations
                        ELSE [registrations EXCEPT ![cb] = 0]
    /\ UNCHANGED <<flags, helperCall, pending, heartbeat, runLocals, runHistory, stopping, on_add_lap_callbacks, last_call,
                   current_lap, last_data, last_time_data_received, was_connected, connections,
                   lock, session, rpc, rxLocals, stack, now, history, added, cb_calls>>

\* GT7Session.clear_on_load_laps_callbacks
ClearOnLoadLapsCallbacks ==
    /\ on_load_laps_callbacks' = <<>>
    /\ registrations' = IF registrations = NotRecorded THEN registrations
                        ELSE [cb \in Callbacks |-> 0]
    /\ UNCHANGED <<flags, helperCall, pending, heartbeat, runLocals, runHistory, stopping, on_add_lap_callbacks, last_call,
                   current_lap, last_data, last_time_data_received, was_connected, connections,
                   lock, session, rpc, rxLocals, stack, now, history, added, cb_calls>>

\* A session after construction, with the registrations of its load
\* listeners recorded.
InitLoad ==
    /\ Built("new")
    /\ heartbeat = NotRecorded
    /\ registrations = [cb \in Callbacks |-> 0]
    /\ connections = NotRecorded
    /\ input = NoInput
    /\ output = NoOutput

\* The listeners of the callers below: one that returns and one that raises.
LoadListeners == {"update_a", "faulty"}

\* Callers that register and remove load listeners and load laps with any
\* combination of the three flags.
NextLoad ==
    \/ \E cb \in LoadListeners : SetOnLoadLapsCallback(cb)
    \/ \E cb \in LoadListeners : RemoveOnLoadLapsCallback(cb)
    \/ ClearOnLoadLapsCallbacks
    \/ \E lap \in CallerLaps, to_last \in BOOLEAN, to_first \in BOOLEAN, replace \in BOOLEAN :
          SessionLoadLaps(lap, to_last, to_first, replace)

SpecLoad == InitLoad /\ [][NextLoad]_vars

\* How often a listener occurs in a list of listeners.
RECURSIVE Occurrences(_, _)
Occurrences(callbacks, cb) ==
    IF callbacks = <<>> THEN 0
    ELSE (IF Head(callbacks) = cb THEN 1 ELSE 0) + Occurrences(Tail(callbacks), cb)

\* C37: after load_laps the lap list is the former list followed by the
\* given laps when to_last_position was set; else the given laps followed by
\* the former list when to_first_position was set; else the given laps alone
\* when replace_other_laps was set; else the former list.  Every listener
\* registered at the time of the call, however often it was registered, was
\* called once, the others not at all, and each was passed the given laps.
C37_LoadLapsPlacement ==
    last_call.op = "load" =>
        LET former == last_call.before.laps
            given == last_call.laps
            to_last == last_call.flags[1]
            to_first == last_call.flags[2]
            replace == last_call.flags[3]
        IN  /\ to_last => session.laps = former \o given
            /\ (~to_last /\ to_first) => session.laps = given \o former
            /\ (~to_last /\ ~to_first /\ replace) => session.laps = given
            /\ (~to_last /\ ~to_first /\ ~replace) => session.laps = former
            /\ \A cb \in Callbacks :
                   Occurrences(last_call.called, cb) =
                       IF last_call.registered[cb] > 0 THEN 1 ELSE 0
            /\ \A i \in 1..Len(last_call.passed) : last_call.passed[i] = given

\* load_laps was called with all three flags set on a session that held a
\* different lap, with two listeners registered, the first one raising and
\* the second one registered twice.
C37_Witness ==
    /\ last_call.op = "load"
    /\ last_call.flags = <<TRUE, TRUE, TRUE>>
    /\ Len(last_call.before.laps) = 1
    /\ last_call.before.laps # last_call.laps
    /\ session.laps = last_call.before.laps \o last_call.laps
    /\ last_call.registered["update_a"] = MaxRegistrations
    /\ last_call.called = <<"faulty", "update_a">>

\* C36, as stated: no step of the receiver and no add_lap or load_laps of a
\* caller lowers Session.max_speed or raises Session.min_body_height.
C36_ExtremesAreMonotonic ==
    [][ /\ session'.max_speed >= session.max_speed
        /\ session'.min_body_height <= session.min_body_height ]_vars

\* ---------------------------------------------------------------------
\* The on_connected callback

\* After construction, set_on_connected_callback and start(), with the
\* connections recorded: none yet, and no call of on_connected.
InitConnect ==
    /\ Built("bind")
    /\ heartbeat = NotRecorded
    /\ registrations = NotRecorded
    /\ connections = [transitions |-> 0, callbacks |-> 0]
    /\ input = NoInput
    /\ output = NoOutput

\* The receiver, with receive timeouts, and the wall clock.
NextConnect ==
    \/ RxStep
    \/ FinishStep("rx")
    \/ Tick

SpecConnect == InitConnect /\ [][NextConnect]_vars

\* C39, as stated: on_connected has never been called more often than the
\* receiver became connected; whenever the receiver becomes connected
\* again the callback has been called once for each time it became
\* connected before; and once the loop was entered with the receiver
\* connected, where the connection event is checked, the callback has been
\* called for every time it became connected.
C39_OnConnectedOncePerConnection ==
    /\ [](connections.callbacks <= connections.transitions)
    /\ [][connections'.transitions > connections.transitions =>
             connections.callbacks = connections.transitions]_vars
    /\ [][(rpc = "bind" /\ rpc' = "recv" /\ IsConnected) =>
             connections'.callbacks = connections'.transitions]_vars

\* ---------------------------------------------------------------------
\* A manual finish_lap that races with the receiver's

\* The first sample of a session, received before the race starts.
FirstSample == Sample(1, 0, -1, FALSE, GoodSpeed)

\* The open lap after the first sample was folded into it.
RacingLap == ProcessLapData(Lap0, Session0, FirstSample).lap

\* The samples that make the receiver call finish_lap: the console is in a
\* lap of the race.
BoundarySamples ==
    { Sample(id, cur, last, paused, GoodSpeed) :
        id \in 1..MaxId, cur \in 1..MaxLapIndex, last \in {-1, LapTimeMs},
        paused \in BOOLEAN }

\* The receiver has folded the first sample (the fold raised and the loop was
\* entered again), has accepted a boundary sample and has called
\* finish_lap; the user has pressed the log-lap button: both calls wait for
\* the lock.
InitRace ==
    \E d \in BoundarySamples :
        /\ shall_run = TRUE
        /\ shall_restart = FALSE
        /\ current_lap = RacingLap
        /\ last_data = d
        /\ last_time_data_received = 1
        /\ was_connected = "yes"
        /\ always_record_data = TRUE
        /\ lapfinish_callback = TRUE
        /\ lock = "none"
        /\ session = [ProcessLapData(Lap0, Session0, FirstSample).session EXCEPT
                         !.special_packet_time = 3 * d.last_lap - 50 * RacingLap.lap_ticks,
                         !.best_lap = d.best_lap]
        /\ rpc = "finish"
        /\ previous_lap = d.current_lap
        /\ package_id = d.package_id
        /\ package_nr = 1
        /\ stack = [t \in Threads |-> IF t = "rx" THEN <<NewFrame(FALSE, "loop")>>
                                      ELSE <<NewFrame(TRUE, "ui")>>]
        /\ now = 1
        /\ received = 2
        /\ rx = [kind |-> "accept", index |-> d.current_lap, over_loop |-> TRUE, over_run |-> TRUE]
        /\ hi_loop = d.package_id
        /\ hi_run = d.package_id
        /\ prev_index = 0
        /\ accepted_at = 1
        /\ added = <<>>
        /\ cb_calls = <<>>
        /\ connection_attempts = 0
        /\ retry_delay = 0
        /\ streak = 0
        /\ bind_failures = 0
        /\ socket_errors = 0
        /\ stop_pc = "idle"
        /\ stops = 0
        /\ on_add_lap_callbacks = <<>>
        /\ on_load_laps_callbacks = <<>>
        /\ last_call = NoCall
        /\ registrations = NotRecorded
        /\ connections = NotRecorded
        /\ pending = NoPending
        /\ heartbeat = NotRecorded
        /\ input = NoInput
        /\ output = NoOutput

\* The two calls of finish_lap, and the rest of the receiver's turn of the
\* loop: the boundary sample is folded into the open lap.
NextRace ==
    \/ \E t \in Threads : FinishStep(t)
    \/ LogData

SpecRace == InitRace /\ [][NextRace]_vars

\* The racing lap as finish_lap adds it, manually or not.
IsRacingLap(lap) == \E manual \in BOOLEAN : lap = FinishFields(RacingLap, last_data, manual)

\* How many of the laps in q are the racing lap.
RacingLaps(q) == Cardinality({i \in 1..Len(q) : IsRacingLap(q[i])})

\* C40, as stated: of a manual finish_lap and the receiver's that wait for
\* the lock with the same open lap, the lap is added at most once and handed
\* to the callback at most once, by the call that added it; when both have
\* returned it was handed over if it was added; and the other call has
\* added nothing, so that no second lap was added.
C40_RacingFinishAddsOnce ==
    /\ RacingLaps(added) <= 1
    /\ RacingLaps(cb_calls) <= RacingLaps(added)
    /\ (\A t \in Threads : ~InFinish(t)) => RacingLaps(cb_calls) = RacingLaps(added)
    /\ Len(added) <= 1

\* The open lap that follows the racing lap, with the boundary sample folded
\* into it, as a manual finish_lap adds it.
FollowingLap ==
    FinishFields(ProcessLapData([Lap0 EXCEPT !.fuel_at_start = last_data.current_fuel],
                                session, last_data).lap,
                 last_data, TRUE)

\* C40, amended: the two calls are never both between taking the lock and
\* replacing the open lap; the racing lap is added at most once and handed
\* to the callback at most once, by the call that added it, and when both
\* calls have returned it was handed over if it was added.  The other call
\* adds nothing of it: it finds an empty open lap, or, when the receiver's
\* call came first and the receiver has folded the boundary sample since,
\* the following lap with that one sample, which the manual call then adds.
C40_RacingLapAddedOnce ==
    /\ ~(\A t \in Threads : InFinish(t) /\ Top(t).pc \in {"add", "reset"})
    /\ RacingLaps(added) <= 1
    /\ RacingLaps(cb_calls) <= RacingLaps(added)
    /\ (\A t \in Threads : ~InFinish(t)) => RacingLaps(cb_calls) = RacingLaps(added)
    /\ \A i \in 1..Len(added) :
           ~IsRacingLap(added[i]) =>
               /\ i = 2
               /\ ~added[1].is_manual
               /\ added[i] = FollowingLap

\* The manual call came first: it has added the racing lap and handed it to
\* the callback, the receiver's call has found an empty open lap and added
\* nothing, and the receiver has folded the boundary sample.
C40_Witness ==
    /\ \A t \in Threads : ~InFinish(t)
    /\ Len(added) = 1
    /\ IsRacingLap(added[1])
    /\ added[1].is_manual
    /\ cb_calls = added
    /\ rpc = "bind"
    /\ Len(current_lap.data_speed) = 1

\* C38, as stated: no two laps that finish_lap has added to the session,
\* from the receiver's loop or from the button of the UI, carry the same
\* number.
C38_AddedNumbersDistinct ==
    \A i \in 1..Len(added) : \A j \in 1..Len(added) :
        i # j => added[i].number # added[j].number

====
